---- MODULE Spec2Model ----
(***************************************************************************)
(* pg_store_plans: the shared plan-statistics cache of pg_store_plans.c.   *)
(*                                                                         *)
(* The model follows the backend code statement by statement: pgsp_store,  *)
(* entry_alloc, entry_dealloc, ptext_store, ptext_load_file, ptext_fetch,  *)
(* need_gc_ptexts, gc_ptexts, entry_reset and pg_store_plans_internal.     *)
(* Each backend is a process with a program counter; one action is one     *)
(* stretch of code between two points where other backends can interfere.  *)
(*                                                                         *)
(* Abstractions:                                                           *)
(*  - a plan is the pair (planid, shortened text) that pgsp_json_normalize *)
(*    + hash_any and pgsp_json_shorten compute from it; every shortened    *)
(*    text has the same length PlanLen, so the text file is a sequence of  *)
(*    records of RecLen bytes (offsets and extent are kept in bytes);      *)
(*  - doubles are exact: times are integers, usage is a fixed-point        *)
(*    integer (UsageScale units = 1.0), mean_time and sum_var_time are     *)
(*    rationals <<num, den>>;                                              *)
(*  - the block and I/O-time counters, which all accumulate alike, are     *)
(*    represented by shared_blks_hit.                                      *)
(***************************************************************************)
EXTENDS Integers, Sequences, FiniteSets, TLC

(* ------------------------------ bounds --------------------------------- *)
MaxOps == 2
store_size == 1
PlanLen == 4095
MaxRestarts == 2
DumpMaxEntries == 2
MaxCalls == 3
MaxPasses == 3

Procs == {1, 2}
Users == {"u1", "u2"}
Databases == {"db"}
QueryIds == {7}
\* plans as pgsp_store sees them: planid = hash of the normalized plan,
\* text = the shortened plan; A1 and A2 are two executions of one plan shape
Plans == {[planid |-> 11, text |-> "A1"],
          [planid |-> 11, text |-> "A2"],
          [planid |-> 12, text |-> "B1"]}
Execs == {[total_time |-> 2, rows |-> 1]}
PlanFormats == {"raw", "json"}
StorageModes == {"file", "shmem"}

(* -------------------------- program constants -------------------------- *)
max_plan_len == 5000
PGSP_FILE_HEADER == 539037989
PGSP_PG_MAJOR_VERSION == 1400
ASSUMED_LENGTH_INIT == 1024
USAGE_DEALLOC_PERCENT == 5
MinVictims == 10
GcMinBytesPerEntry == 512
UsageScale == 100 * 100 * 100
USAGE_INIT == 1 * UsageScale
USAGE_EXEC == 1 * UsageScale
ASSUMED_MEDIAN_INIT == 10 * UsageScale
\* the decay factors 0.99 and 0.50 as fractions <<num, den>>
USAGE_DECREASE_FACTOR == <<99, 100>>
STICKY_DECREASE_FACTOR == <<50, 100>>

RecLen == PlanLen + 1

(* ------------------------------ helpers -------------------------------- *)
Max(a, b) == IF a >= b THEN a ELSE b
Min(a, b) == IF a <= b THEN a ELSE b
Abs(a) == IF a < 0 THEN 0 - a ELSE a

RECURSIVE GCD(_, _)
GCD(a, b) == IF b = 0 THEN a ELSE GCD(b, a % b)

\* exact rationals <<n, d>>, d > 0, in lowest terms
RNorm(n, d) ==
    LET g == GCD(Abs(n), d)
    IN  IF n = 0 THEN <<0, 1>> ELSE <<n \div g, d \div g>>
RInt(i) == <<i, 1>>
RAdd(x, y) == RNorm(x[1] * y[2] + y[1] * x[2], x[2] * y[2])
RSub(x, y) == RNorm(x[1] * y[2] - y[1] * x[2], x[2] * y[2])
RMul(x, y) == RNorm(x[1] * y[1], x[2] * y[2])
RDivInt(x, k) == RNorm(x[1], x[2] * k)

Perms(S) == {s \in [1..Cardinality(S) -> S] :
                \A i, j \in 1..Cardinality(S) : s[i] = s[j] => i = j}

(* ------------------------------- state --------------------------------- *)
VARIABLES
    plan_storage,   \* GUC pg_store_plans.plan_storage
    lock,           \* shared_state->lock: [excl |-> proc or 0, shared |-> set]
    hash_table,     \* key -> pgspEntry, for the keys present
    shared_state,   \* pgspSharedState scalars
    text_file,      \* PGSP_TEXT_FILE as a sequence of RecLen-byte records
    now,            \* the clock GetCurrentTimestamp() reads
    ops,            \* operations started so far
    pc,             \* per backend: position in the running operation
    loc,            \* per backend: local variables of the running operation
    acct,           \* history: per key, the store() updates applied since
                    \* the key's entry was created
    gc_runs,        \* history: garbage collections of the text file so far
    postmaster,     \* the server's life cycle and the locals of the
                    \* shmem_startup / shmem_shutdown hooks
    dump_file,      \* PGSP_DUMP_FILE
    session,        \* the text a session hands through the SQL functions
                    \* of the transcoders, and what they returned
    pgsp_max,       \* GUC pg_store_plans.max (store_size in the code): the
                    \* bound store_size, or one of TableSizes
    executor,       \* one backend's executor hooks: the GUCs they read,
                    \* nested_level, and the query descriptors in progress
    sync,           \* the locking skeleton of the backend code: per backend
                    \* the stack of source lines it is at, and the holders
                    \* of shared_state->mutex and of an entry's mutex
    stats           \* the time statistics of one entry, in the doubles
                    \* of the code, and the samples stored to it so far

\* the variables no backend operation touches
pm_vars == <<postmaster, dump_file>>

vars == <<plan_storage, lock, hash_table, shared_state, text_file, now, ops,
          pc, loc, acct, gc_runs, pm_vars, session, pgsp_max, executor, sync,
          stats>>

\* the variables of the backends and of the postmaster
store_vars == <<plan_storage, lock, hash_table, shared_state, text_file, now,
                ops, pc, loc, acct, gc_runs, pm_vars, pgsp_max, executor, sync,
                stats>>

\* session.src is the text a session starts from; calls names the functions
\* applied so far, each to the result of the one before; out, ok and
\* emitted keep what each call returned, whether its parse completed and
\* whether it had written anything of the plan; status is "crashed" once a
\* call ended the backend.
NoSession ==
    [src |-> <<>>, calls |-> <<>>, out |-> <<>>, ok |-> <<>>,
     emitted |-> <<>>, status |-> "ok"]

\* the executor hooks before any statement: track_level and min_duration at
\* their boot values and no query descriptor.  last is what the latest
\* ExecutorEnd hook did: whether it called pgsp_store(), and below how many
\* running statements; flip changes at every ExecutorEnd.
NoEnd == [stored |-> FALSE, depth |-> 0, flip |-> FALSE]

NoExecutor ==
    [track_level |-> "top", min_duration |-> 0, nested_level |-> 0,
     stack |-> <<>>, error |-> FALSE, pg14 |-> TRUE, last |-> NoEnd]

\* no backend is inside the code, no spinlock is held
NoSync ==
    [at |-> [p \in Procs |-> <<>>], iter |-> [p \in Procs |-> 0],
     mutex |-> 0, entry_mutex |-> 0]

\* a double is sign, significand and exponent: (-1)^neg * m * 2^e, with m a
\* natural number written in limbs, least significant first
DZero == [neg |-> FALSE, m |-> <<>>, e |-> 0]

\* the time fields of a fresh entry (calls = 0): memset(&entry->counters, 0)
NoStats ==
    [calls |-> 0, total_time |-> DZero, min_time |-> DZero,
     max_time |-> DZero, mean_time |-> DZero, sum_var_time |-> DZero,
     samples |-> <<>>]

Keys == [userid : Users, dbid : Databases, queryid : QueryIds,
         planid : {p.planid : p \in Plans}]

ZeroCounters ==
    [calls |-> 0, total_time |-> 0, min_time |-> 0, max_time |-> 0,
     mean_time |-> <<0, 1>>, sum_var_time |-> <<0, 1>>, rows |-> 0,
     shared_blks_hit |-> 0, first_call |-> 0, last_call |-> 0, usage |-> 0]

\* what a hash element taken from the free list may still hold
StaleCounters ==
    [calls |-> 1, total_time |-> 2, min_time |-> 2, max_time |-> 2,
     mean_time |-> <<2, 1>>, sum_var_time |-> <<0, 1>>, rows |-> 1,
     shared_blks_hit |-> 1, first_call |-> 0, last_call |-> 0,
     usage |-> USAGE_INIT]

NullBuf == [ok |-> FALSE, data |-> <<>>]

NoKey == [userid |-> "none", dbid |-> "none", queryid |-> 0, planid |-> 0]
NoExec == [total_time |-> 0, rows |-> 0]

\* the locals of pgsp_store (key .. failed; entry is "entry != NULL" after
\* the lookup, found is entry_alloc's; n_writers0, gc_seen and touched are
\* history: n_writers when the last ptext_store began, gc_runs when the
\* first one did, and whether this call has written to the hash table) and
\* of pg_store_plans_internal
NoLoc ==
    [key |-> NoKey, text |-> "", exec |-> NoExec, plan_len |-> 0,
     plan_offset |-> 0, gc_count |-> 0, stored |-> FALSE, do_gc |-> FALSE,
     entry |-> FALSE, found |-> FALSE, attempt |-> 0, failed |-> FALSE,
     n_writers0 |-> 0, gc_seen |-> 0, touched |-> FALSE,
     extent |-> 0, n_writers |-> 0, pbuffer |-> NullBuf,
     userid |-> "none", is_allowed_role |-> FALSE, plan_format |-> "none",
     rows |-> <<>>]

ZeroAcct == [calls |-> 0, total_time |-> 0, rows |-> 0]

\* no PGSP_DUMP_FILE on disk; a dump file is its three header words, its
\* records and len, the number of items (header words, entry structs and
\* texts) that can be read before the end of the file
NoFile == [exists |-> FALSE, magic |-> 0, pgver |-> 0, num |-> 0,
           recs |-> <<>>, len |-> 0]

\* the server is up and no hook is running: state is the position in the
\* life cycle, i the loop index of pgsp_shmem_startup; the rest is history:
\* old_table and old_texts (the table at the last shutdown and the text
\* each entry resolved to), dumped (whether that shutdown put a dump in
\* place), damaged (whether the dump was altered on disk since), found_file
\* (the dump as startup found it), error (the label startup left by), nread
\* (the records startup read completely), evicted (whether startup ran
\* entry_dealloc) and io_failed (whether a file operation of startup itself
\* failed)
Running == [state |-> "up", i |-> 0, old_table |-> <<>>, old_texts |-> <<>>,
            dumped |-> FALSE, damaged |-> FALSE, found_file |-> NoFile,
            error |-> "none", nread |-> 0, evicted |-> FALSE,
            io_failed |-> FALSE]

EmptyTable == [k \in {} |-> ZeroCounters]

Init ==
    /\ plan_storage \in StorageModes
    /\ lock = [excl |-> 0, shared |-> {}]
    /\ hash_table = EmptyTable
    /\ shared_state = [cur_median_usage |-> ASSUMED_MEDIAN_INIT,
                       mean_plan_len |-> ASSUMED_LENGTH_INIT,
                       extent |-> 0, n_writers |-> 0, gc_count |-> 0,
                       dealloc |-> 0, stats_reset |-> 0]
    /\ text_file = <<>>
    /\ now = 1
    /\ ops = 0
    /\ pc = [p \in Procs |-> "idle"]
    /\ loc = [p \in Procs |-> NoLoc]
    /\ acct = [k \in Keys |-> ZeroAcct]
    /\ gc_runs = 0
    /\ postmaster = Running
    /\ dump_file = NoFile
    /\ session = NoSession
    /\ pgsp_max = store_size
    /\ executor = NoExecutor
    /\ sync = NoSync
    /\ stats = NoStats

(* --------------------------- table lock -------------------------------- *)
CanShare == lock.excl = 0
CanExcl == lock.excl = 0 /\ lock.shared = {}
AcquireShared(p) == [lock EXCEPT !.shared = @ \cup {p}]
AcquireExcl(p) == [lock EXCEPT !.excl = p]
Release(p) == [excl |-> IF lock.excl = p THEN 0 ELSE lock.excl,
               shared |-> lock.shared \ {p}]

\* remove / add keys of a function kept as "key -> entry for present keys"
Without(tab, V) == [k \in (DOMAIN tab) \ V |-> tab[k]]
With(tab, key, ent) ==
    [k \in (DOMAIN tab) \cup {key} |-> IF k = key THEN ent ELSE tab[k]]

(* ----------------------- external plan text file ----------------------- *)
\* pg_pwrite(fd, plan, plan_len, off) followed by the NUL at off + plan_len:
\* the record at byte offset off is replaced; a write past the end of the
\* file leaves a hole of zero bytes, which reads back as empty strings
RECURSIVE Holes(_)
Holes(n) == IF n <= 0 THEN <<>> ELSE <<"">> \o Holes(n - 1)

FileWrite(file, off, text) ==
    LET slot == (off \div RecLen) + 1
    IN  IF slot <= Len(file)
        THEN [file EXCEPT ![slot] = text]
        ELSE file \o Holes(slot - 1 - Len(file)) \o <<text>>

\* ptext_load_file: the whole file in a malloc'd buffer, or NULL
ptext_load_file(file, ok) ==
    IF ok THEN [ok |-> TRUE, data |-> file] ELSE NullBuf

NullStr == [ok |-> FALSE, str |-> ""]

\* the byte of the buffer at position pos is '\0'
ByteIsNul(data, pos) ==
    \/ data[(pos \div RecLen) + 1] = ""
    \/ pos % RecLen = PlanLen

\* ptext_fetch: NULL for a failed load, a bogus offset/length or a missing
\* trailing NUL, else the string at plan_offset
ptext_fetch(plan_offset, plan_len, buffer) ==
    IF ~buffer.ok THEN NullStr
    ELSE IF plan_len < 0
            \/ plan_offset + plan_len >= Len(buffer.data) * RecLen
         THEN NullStr
    ELSE IF ~ByteIsNul(buffer.data, plan_offset + plan_len) THEN NullStr
    ELSE [ok |-> TRUE, str |-> buffer.data[(plan_offset \div RecLen) + 1]]

need_gc_ptexts(ss) ==
    IF ss.extent < GcMinBytesPerEntry * pgsp_max THEN FALSE
    ELSE IF ss.extent < ss.mean_plan_len * pgsp_max * 2 THEN FALSE
    ELSE TRUE

\* (variant: the scan leaves the offsets of the rewritten texts alone)
RECURSIVE GcScan_keep_offset(_, _, _, _)
GcScan_keep_offset(order, i, acc, oldbuf) ==
    IF i > Len(order) THEN acc
    ELSE LET key == order[i]
             entry == acc.tab[key]
             plan == ptext_fetch(entry.plan_offset, entry.plan_len, oldbuf)
         IN  IF ~plan.ok
             THEN GcScan_keep_offset(order, i + 1,
                         [acc EXCEPT !.tab[key].plan_offset = 0,
                                     !.tab[key].plan_len = -1],
                         oldbuf)
             ELSE GcScan_keep_offset(order, i + 1,
                         [tab |-> acc.tab,
                          file |-> acc.file \o <<plan.str>>,
                          extent |-> acc.extent + entry.plan_len + 1,
                          nentries |-> acc.nentries + 1],
                         oldbuf)

\* the scan of gc_ptexts over the entries in hash_seq_search order: texts
\* that validate are rewritten back to back, the others are dropped
RECURSIVE GcScan(_, _, _, _)
GcScan(order, i, acc, oldbuf) ==
    IF i > Len(order) THEN acc
    ELSE LET key == order[i]
             entry == acc.tab[key]
             plan == ptext_fetch(entry.plan_offset, entry.plan_len, oldbuf)
         IN  IF ~plan.ok
             THEN GcScan(order, i + 1,
                         [acc EXCEPT !.tab[key].plan_offset = 0,
                                     !.tab[key].plan_len = -1],
                         oldbuf)
             ELSE GcScan(order, i + 1,
                         [tab |-> [acc.tab EXCEPT
                                     ![key].plan_offset = acc.extent],
                          file |-> acc.file \o <<plan.str>>,
                          extent |-> acc.extent + entry.plan_len + 1,
                          nentries |-> acc.nentries + 1],
                         oldbuf)

\* (variant: gc_fail leaves the text pointers alone)
GcFail_keep_pointers(tab, ss) ==
    [tab |-> tab,
     ss |-> [ss EXCEPT !.extent = 0, !.mean_plan_len = ASSUMED_LENGTH_INIT],
     file |-> <<>>]

\* gc_fail: every text pointer invalidated, the file unlinked and recreated
GcFail(tab, ss) ==
    [tab |-> [k \in DOMAIN tab |->
                [tab[k] EXCEPT !.plan_offset = 0, !.plan_len = -1]],
     ss |-> [ss EXCEPT !.extent = 0, !.mean_plan_len = ASSUMED_LENGTH_INIT],
     file |-> <<>>]

\* gc_ptexts; order is the hash_seq_search order, io the fate of the file
\* operations: "ok"; "fail" for a failure of any of load / open / fwrite /
\* close after which gc_fail's unlink or its AllocateFile succeeds; "stuck"
\* for a failure of the load or of the first AllocateFile after which
\* neither the unlink nor the second AllocateFile succeeds, which leaves
\* the file as it was; "stuck_late" for a failure of FreeFile after which
\* neither succeeds, which leaves the file as the scan rewrote it
GcFates == {"ok", "fail", "stuck", "stuck_late"}

\* (variant: the collection leaves mean_plan_len alone)
gc_ptexts_stale_mean(tab, ss, file, order, io) ==
    IF ~need_gc_ptexts(ss) THEN [tab |-> tab, ss |-> ss, file |-> file]
    ELSE IF io = "stuck" THEN [GcFail(tab, ss) EXCEPT !.file = file]
    ELSE IF io = "fail" THEN GcFail(tab, ss)
    ELSE LET r == GcScan(order, 1,
                         [tab |-> tab, file |-> <<>>, extent |-> 0,
                          nentries |-> 0],
                         ptext_load_file(file, TRUE))
         IN  IF io = "stuck_late"
             THEN [GcFail(tab, ss) EXCEPT !.file = r.file]
             ELSE [tab |-> r.tab,
                   ss |-> [ss EXCEPT !.extent = r.extent],
                   file |-> r.file]

gc_ptexts(tab, ss, file, order, io) ==
    IF ~need_gc_ptexts(ss) THEN [tab |-> tab, ss |-> ss, file |-> file]
    ELSE IF io = "stuck" THEN [GcFail(tab, ss) EXCEPT !.file = file]
    ELSE IF io = "fail" THEN GcFail(tab, ss)
    ELSE LET r == GcScan(order, 1,
                         [tab |-> tab, file |-> <<>>, extent |-> 0,
                          nentries |-> 0],
                         ptext_load_file(file, TRUE))
         IN  IF io = "stuck_late"
             THEN [GcFail(tab, ss) EXCEPT !.file = r.file]
             ELSE [tab |-> r.tab,
                   ss |-> [ss EXCEPT
                             !.extent = r.extent,
                             !.mean_plan_len =
                                 IF r.nentries > 0
                                 THEN r.extent \div r.nentries
                                 ELSE ASSUMED_LENGTH_INIT],
                   file |-> r.file]

(* --------------------------- entry_dealloc ----------------------------- *)
Decay(usage, factor) == (usage * factor[1]) \div factor[2]

\* a decay that treats every entry alike
DecayedTable_uniform(tab) ==
    [k \in DOMAIN tab |->
        [tab[k] EXCEPT !.counters.usage = Decay(@, USAGE_DECREASE_FACTOR)]]

DecayedTable(tab) ==
    [k \in DOMAIN tab |->
        [tab[k] EXCEPT !.counters.usage =
            IF tab[k].counters.calls = 0
            THEN Decay(@, STICKY_DECREASE_FACTOR)
            ELSE Decay(@, USAGE_DECREASE_FACTOR)]]

\* entries[idx] (0-based) of the array sorted by entry_cmp
SortedUsageAt(tab, idx) ==
    CHOOSE u \in {tab[k].counters.usage : k \in DOMAIN tab} :
        /\ Cardinality({k \in DOMAIN tab : tab[k].counters.usage <= u}) > idx
        /\ Cardinality({k \in DOMAIN tab : tab[k].counters.usage < u}) <= idx

\* the sum of plan_len + 1 over the entries of S, taken length by length
RECURSIVE SumTextLen(_, _)
SumTextLen(tab, S) ==
    IF S = {} THEN 0
    ELSE LET len == tab[CHOOSE x \in S : TRUE].plan_len
             same == {k \in S : tab[k].plan_len = len}
         IN  (len + 1) * Cardinality(same) + SumTextLen(tab, S \ same)

ValidTexts(tab) == {k \in DOMAIN tab : tab[k].plan_len >= 0}

\* a victim count that rounds the percentage up
NVictims_ceil(i) ==
    Min(Max(MinVictims, (i * USAGE_DEALLOC_PERCENT + 99) \div 100), i)

NVictims(i) == Min(Max(MinVictims, (i * USAGE_DEALLOC_PERCENT) \div 100), i)

\* V can be the first nvictims entries of the sorted array (qsort leaves the
\* order of entries with equal usage open)
IsVictimSet(tab, V) ==
    /\ V \subseteq DOMAIN tab
    /\ Cardinality(V) = NVictims(Cardinality(DOMAIN tab))
    /\ \A v \in V, w \in (DOMAIN tab) \ V :
           tab[v].counters.usage <= tab[w].counters.usage

\* (variant: the pass decays and measures, and removes nothing)
entry_dealloc_keep(tab, ss, V, tot0, nv0) ==
    LET d == DecayedTable(tab)
        i == Cardinality(DOMAIN d)
        tottextlen == tot0 + SumTextLen(d, ValidTexts(d))
        nvalidtexts == nv0 + Cardinality(ValidTexts(d))
    IN  [tab |-> d,
         ss |-> [ss EXCEPT
                   !.cur_median_usage =
                       IF i > 0 THEN SortedUsageAt(d, i \div 2) ELSE @,
                   !.mean_plan_len =
                       IF nvalidtexts > 0 THEN tottextlen \div nvalidtexts
                       ELSE ASSUMED_LENGTH_INIT,
                   !.dealloc = @ + 1]]

\* entry_dealloc; V is the victim set (a victim set of the decayed table),
\* tot0 and nv0 what the locals tottextlen and nvalidtexts, which the code
\* never initialises, hold on entry
entry_dealloc(tab, ss, V, tot0, nv0) ==
    LET d == DecayedTable(tab)
        i == Cardinality(DOMAIN d)
        tottextlen == tot0 + SumTextLen(d, ValidTexts(d))
        nvalidtexts == nv0 + Cardinality(ValidTexts(d))
    IN  [tab |-> Without(d, V),
         ss |-> [ss EXCEPT
                   !.cur_median_usage =
                       IF i > 0 THEN SortedUsageAt(d, i \div 2) ELSE @,
                   !.mean_plan_len =
                       IF nvalidtexts > 0 THEN tottextlen \div nvalidtexts
                       ELSE ASSUMED_LENGTH_INIT,
                   !.dealloc = @ + 1]]

\* values the uninitialised locals tottextlen and nvalidtexts of
\* entry_dealloc are sampled from
UninitLocals == {<<0, 0>>, <<8 * RecLen, 1>>}

(* ------------------------ counters of one entry ------------------------ *)
\* the update pgsp_store makes under the entry's spinlock
UpdateCounters(c, exec, t) ==
    LET c0 == IF c.calls = 0
              THEN [c EXCEPT !.usage = USAGE_INIT, !.first_call = t]
              ELSE c
        calls == c0.calls + 1
        old_mean == c0.mean_time
        tt == RInt(exec.total_time)
        mean == RAdd(old_mean, RDivInt(RSub(tt, old_mean), calls))
    IN  [c0 EXCEPT
           !.calls = calls,
           !.total_time = @ + exec.total_time,
           !.min_time = IF calls = 1 THEN exec.total_time
                        ELSE IF @ > exec.total_time THEN exec.total_time
                        ELSE @,
           !.max_time = IF calls = 1 THEN exec.total_time
                        ELSE IF @ < exec.total_time THEN exec.total_time
                        ELSE @,
           !.mean_time = IF calls = 1 THEN tt ELSE mean,
           !.sum_var_time =
               IF calls = 1 THEN @
               ELSE RAdd(@, RMul(RSub(tt, old_mean), RSub(tt, mean))),
           !.rows = @ + exec.rows,
           !.shared_blks_hit = @ + exec.rows,
           !.last_call = t,
           !.usage = @ + USAGE_EXEC]

(* ------------------------------ pgsp_store ----------------------------- *)
Count(tab) == Cardinality(DOMAIN tab)

\* plan_len = strlen(shorten_plan), clipped below plan_size
ClipLen(len) == IF len >= max_plan_len THEN max_plan_len - 1 ELSE len

\* what the local pointer "entry" of backend p denotes: its entry, or, once
\* the entry has been removed under it, freed memory (no entry) or whichever
\* entry reuses the element
Deref(p) ==
    IF loc[p].key \in DOMAIN hash_table THEN {loc[p].key}
    ELSE (DOMAIN hash_table) \cup {NoKey}

\* key set-up, LWLockAcquire(LW_SHARED) and hash_search(HASH_FIND)
pgsp_store_lookup(p) ==
    /\ pc[p] = "idle"
    /\ ops < MaxOps
    /\ CanShare
    /\ \E u \in Users, d \in Databases, q \in QueryIds, pl \in Plans,
          ex \in Execs :
         LET key == [userid |-> u, dbid |-> d, queryid |-> q,
                     planid |-> pl.planid]
             entry == key \in DOMAIN hash_table
         IN  /\ loc' = [loc EXCEPT ![p] =
                          [NoLoc EXCEPT !.key = key, !.text = pl.text,
                                        !.exec = ex,
                                        !.plan_len = ClipLen(PlanLen),
                                        !.entry = entry, !.attempt = 1]]
             /\ pc' = [pc EXCEPT ![p] =
                         IF entry THEN "st_update"
                         ELSE IF plan_storage = "file" THEN "st_reserve"
                         ELSE "st_alloc"]
    /\ lock' = AcquireShared(p)
    /\ ops' = ops + 1
    /\ UNCHANGED <<pm_vars, session, pgsp_max, executor, sync, stats>>
    /\ UNCHANGED <<plan_storage, hash_table, shared_state, text_file, now,
                   acct, gc_runs>>

\* (variant: the reservation leaves no room for the terminating NUL)
ptext_store_reserve_short(p) ==
    /\ pc[p] = "st_reserve"
    /\ loc' = [loc EXCEPT ![p].plan_offset = shared_state.extent,
                          ![p].n_writers0 = shared_state.n_writers,
                          ![p].gc_count =
                              IF loc[p].attempt = 1
                              THEN shared_state.gc_count ELSE @,
                          ![p].gc_seen =
                              IF loc[p].attempt = 1 THEN gc_runs ELSE @]
    /\ shared_state' = [shared_state EXCEPT
                          !.extent = @ + loc[p].plan_len,
                          !.n_writers = @ + 1]
    /\ pc' = [pc EXCEPT ![p] = "st_write"]
    /\ UNCHANGED <<pm_vars, session, pgsp_max, executor, sync, stats>>
    /\ UNCHANGED <<plan_storage, lock, hash_table, text_file, now, ops, acct,
                   gc_runs>>

\* ptext_store, first half: reserve the range under the mutex
ptext_store_reserve(p) ==
    /\ pc[p] = "st_reserve"
    /\ loc' = [loc EXCEPT ![p].plan_offset = shared_state.extent,
                          ![p].n_writers0 = shared_state.n_writers,
                          ![p].gc_count =
                              IF loc[p].attempt = 1
                              THEN shared_state.gc_count ELSE @,
                          ![p].gc_seen =
                              IF loc[p].attempt = 1 THEN gc_runs ELSE @]
    /\ shared_state' = [shared_state EXCEPT
                          !.extent = @ + loc[p].plan_len + 1,
                          !.n_writers = @ + 1]
    /\ pc' = [pc EXCEPT ![p] = "st_write"]
    /\ UNCHANGED <<pm_vars, session, pgsp_max, executor, sync, stats>>
    /\ UNCHANGED <<plan_storage, lock, hash_table, text_file, now, ops, acct,
                   gc_runs>>

\* (variant: a finished write stays counted)
ptext_store_complete_leak(ss) == ss
\* the two "mark our write complete" blocks of ptext_store
ptext_store_complete(ss) == [ss EXCEPT !.n_writers = @ - 1]
\* (variant: the error exit forgets the writer count)
ptext_store_error_leak(ss) == ss
ptext_store_error(ss) == [ss EXCEPT !.n_writers = @ - 1]

\* ptext_store, second half: write the text and the NUL, or fail
ptext_store_write(p) ==
    /\ pc[p] = "st_write"
    /\ \E ok \in BOOLEAN :
         /\ text_file' = IF ok
                         THEN FileWrite(text_file, loc[p].plan_offset,
                                        loc[p].text)
                         ELSE text_file
         /\ shared_state' = IF ok THEN ptext_store_complete(shared_state)
                            ELSE ptext_store_error(shared_state)
         /\ loc' = [loc EXCEPT ![p].stored = ok,
                               ![p].failed = (~ok /\ loc[p].attempt = 2)]
         /\ pc' = [pc EXCEPT ![p] =
                     IF loc[p].attempt = 1 THEN "st_upgrade"
                     ELSE IF ok THEN "st_alloc" ELSE "st_done"]
    /\ UNCHANGED <<pm_vars, session, pgsp_max, executor, sync, stats>>
    /\ UNCHANGED <<plan_storage, lock, hash_table, now, ops, acct, gc_runs>>

\* do_gc = need_gc_ptexts(); LWLockRelease
pgsp_store_release_shared(p) ==
    /\ pc[p] = "st_upgrade"
    /\ loc' = [loc EXCEPT ![p].do_gc = need_gc_ptexts(shared_state)]
    /\ lock' = Release(p)
    /\ pc' = [pc EXCEPT ![p] = "st_excl"]
    /\ UNCHANGED <<pm_vars, session, pgsp_max, executor, sync, stats>>
    /\ UNCHANGED <<plan_storage, hash_table, shared_state, text_file, now,
                   ops, acct, gc_runs>>

\* the test pgsp_store makes once it holds the exclusive lock
MustStoreAgain(stored, noted_gc_count, ss) ==
    ~stored \/ ss.gc_count # noted_gc_count

\* LWLockAcquire(LW_EXCLUSIVE) and the recheck of the GC generation
pgsp_store_lock_excl(p) ==
    /\ pc[p] = "st_excl"
    /\ CanExcl
    /\ lock' = AcquireExcl(p)
    /\ IF MustStoreAgain(loc[p].stored, loc[p].gc_count, shared_state)
       THEN /\ loc' = [loc EXCEPT ![p].attempt = 2]
            /\ pc' = [pc EXCEPT ![p] = "st_reserve"]
       ELSE /\ loc' = loc
            /\ pc' = [pc EXCEPT ![p] = "st_alloc"]
    /\ UNCHANGED <<pm_vars, session, pgsp_max, executor, sync, stats>>
    /\ UNCHANGED <<plan_storage, hash_table, shared_state, text_file, now,
                   ops, acct, gc_runs>>

\* entry_alloc: one test of "while (hash_get_num_entries >= store_size)",
\* with the entry_dealloc() it leads to
entry_alloc_loop(p) ==
    /\ pc[p] = "st_alloc"
    /\ IF Count(hash_table) >= store_size
       THEN \E V \in SUBSET (DOMAIN hash_table), u \in UninitLocals :
              /\ IsVictimSet(DecayedTable(hash_table), V)
              /\ LET r == entry_dealloc(hash_table, shared_state, V,
                                        u[1], u[2])
                 IN  /\ hash_table' = r.tab
                     /\ shared_state' = r.ss
              /\ loc' = [loc EXCEPT ![p].touched = TRUE]
              /\ pc' = pc
       ELSE /\ pc' = [pc EXCEPT ![p] = "st_enter"]
            /\ UNCHANGED <<hash_table, shared_state, loc>>
    /\ UNCHANGED <<pm_vars, session, pgsp_max, executor, sync, stats>>
    /\ UNCHANGED <<plan_storage, lock, text_file, now, ops, acct, gc_runs>>

\* (variant: the element is taken afresh even when the key is present)
entry_alloc_enter_afresh(p) ==
    /\ pc[p] = "st_enter"
    /\ hash_table' = With(hash_table, loc[p].key,
                          [counters |-> ZeroCounters, plan_offset |-> 0,
                           plan_len |-> 0, text |-> ""])
    /\ acct' = [acct EXCEPT ![loc[p].key] = ZeroAcct]
    /\ loc' = [loc EXCEPT ![p].found = FALSE, ![p].touched = TRUE]
    /\ pc' = [pc EXCEPT ![p] = "st_init"]
    /\ UNCHANGED <<pm_vars, session, pgsp_max, executor, sync, stats>>
    /\ UNCHANGED <<plan_storage, lock, shared_state, text_file, now, ops,
                   gc_runs>>

\* entry_alloc: hash_search(HASH_ENTER); a new element holds whatever the
\* free list left in it until it is initialised
entry_alloc_enter(p) ==
    /\ pc[p] = "st_enter"
    /\ LET found == loc[p].key \in DOMAIN hash_table
       IN  /\ IF found
              THEN UNCHANGED <<hash_table, acct>>
              ELSE /\ \E old \in {ZeroCounters, StaleCounters} :
                        hash_table' =
                            With(hash_table, loc[p].key,
                                 [counters |-> old, plan_offset |-> 0,
                                  plan_len |-> 0, text |-> ""])
                   /\ acct' = [acct EXCEPT ![loc[p].key] = ZeroAcct]
           /\ loc' = [loc EXCEPT ![p].found = found,
                                 ![p].touched = @ \/ ~found]
    /\ pc' = [pc EXCEPT ![p] = "st_init"]
    /\ UNCHANGED <<pm_vars, session, pgsp_max, executor, sync, stats>>
    /\ UNCHANGED <<plan_storage, lock, shared_state, text_file, now, ops,
                   gc_runs>>

\* entry_alloc's initialisation of a new entry (sticky is always false)
InitEntry(entry, plan_offset, plan_len) ==
    [entry EXCEPT !.counters = [ZeroCounters EXCEPT !.usage = USAGE_INIT],
                  !.plan_offset = plan_offset,
                  !.plan_len = plan_len]

\* the rest of "if (!entry)": initialise the entry if it is new, copy the
\* text in shmem mode, garbage-collect if do_gc
entry_alloc_init(p) ==
    /\ pc[p] = "st_init"
    /\ \E target \in Deref(p), order \in Perms(DOMAIN hash_table),
          io \in {"ok", "fail"} :
         LET t1 == IF target = NoKey \/ loc[p].found THEN hash_table
                   ELSE [hash_table EXCEPT ![target] =
                           InitEntry(@, loc[p].plan_offset, loc[p].plan_len)]
             t2 == IF target = NoKey \/ plan_storage # "shmem" THEN t1
                   ELSE [t1 EXCEPT ![target].text = loc[p].text]
             r == IF loc[p].do_gc
                  THEN gc_ptexts(t2, shared_state, text_file, order, io)
                  ELSE [tab |-> t2, ss |-> shared_state, file |-> text_file]
         IN  /\ hash_table' = r.tab
             /\ shared_state' = r.ss
             /\ text_file' = r.file
    /\ gc_runs' = IF loc[p].do_gc /\ need_gc_ptexts(shared_state)
                  THEN gc_runs + 1 ELSE gc_runs
    /\ loc' = [loc EXCEPT ![p].touched = TRUE]
    /\ pc' = [pc EXCEPT ![p] = "st_update"]
    /\ UNCHANGED <<pm_vars, session, pgsp_max, executor, sync, stats>>
    /\ UNCHANGED <<plan_storage, lock, now, ops, acct>>

\* the counter update under the entry's spinlock
pgsp_store_update(p) ==
    /\ pc[p] = "st_update"
    /\ \E target \in Deref(p) :
         hash_table' =
             IF target = NoKey THEN hash_table
             ELSE [hash_table EXCEPT ![target].counters =
                     UpdateCounters(@, loc[p].exec, now)]
    /\ acct' = [acct EXCEPT ![loc[p].key] =
                  [calls |-> @.calls + 1,
                   total_time |-> @.total_time + loc[p].exec.total_time,
                   rows |-> @.rows + loc[p].exec.rows]]
    /\ now' = now + 1
    /\ loc' = [loc EXCEPT ![p].touched = TRUE]
    /\ pc' = [pc EXCEPT ![p] = "st_done"]
    /\ UNCHANGED <<pm_vars, session, pgsp_max, executor, sync, stats>>
    /\ UNCHANGED <<plan_storage, lock, shared_state, text_file, ops, gc_runs>>

\* done: LWLockRelease and return
pgsp_store_done(p) ==
    /\ pc[p] = "st_done"
    /\ lock' = Release(p)
    /\ loc' = [loc EXCEPT ![p] = NoLoc]
    /\ pc' = [pc EXCEPT ![p] = "idle"]
    /\ UNCHANGED <<pm_vars, session, pgsp_max, executor, sync, stats>>
    /\ UNCHANGED <<plan_storage, hash_table, shared_state, text_file, now,
                   ops, acct, gc_runs>>

(* ------------------------ pg_store_plans_internal ---------------------- *)
\* the plan column: pgsp_json_textize / inflate / yamlize / xmlize applied to
\* the stored text, the placeholder, or what an indeterminate pointer shows
Transcode(fmt, str) == [kind |-> "plan", fmt |-> fmt, src |-> str]
InsufficientPrivilege ==
    [kind |-> "<insufficient privilege>", fmt |-> "none", src |-> ""]
Garbage == [kind |-> "garbage", fmt |-> "none", src |-> ""]

\* (variant: every caller may read every plan)
MayRead_all(key, userid, is_allowed_role) == TRUE

\* "is_allowed_role || entry->key.userid == userid"
MayRead(key, userid, is_allowed_role) ==
    is_allowed_role \/ key.userid = userid

\* (variant: the fingerprints of another user's entry are not masked)
ScanEntry_ids(key, entry, buffer, userid, is_allowed_role, fmt, ub) ==
    [crash |-> FALSE,
     skip |-> entry.counters.calls = 0,
     row |-> [of |-> key, userid |-> key.userid, dbid |-> key.dbid,
              queryid |-> key.queryid, planid |-> key.planid,
              plan |-> IF MayRead(key, userid, is_allowed_role)
                       THEN Garbage ELSE InsufficientPrivilege,
              counters |-> entry.counters]]

\* the body of the scan loop for one entry: [crash, skip, row]; the row's
\* field "of" is history, the key of the entry it was made from.  In raw
\* format mstr is never assigned, and the transcoders take strlen() of a NULL
\* pstr: both are undefined behaviour, ub names the outcome ("crash", or
\* "garbage": the call goes on with an arbitrary string)
ScanEntry(key, entry, buffer, userid, is_allowed_role, fmt, ub) ==
    LET allowed == MayRead(key, userid, is_allowed_role)
        pstr == IF plan_storage = "file"
                THEN ptext_fetch(entry.plan_offset, entry.plan_len, buffer)
                ELSE [ok |-> TRUE, str |-> entry.text]
        undefined == allowed /\ (fmt = "raw" \/ ~pstr.ok)
        plan == IF ~allowed THEN InsufficientPrivilege
                ELSE IF undefined THEN Garbage
                ELSE Transcode(fmt, pstr.str)
        tmp == entry.counters
    IN  [crash |-> undefined /\ ub = "crash",
         skip |-> tmp.calls = 0,
         row |-> [of |-> key, userid |-> key.userid, dbid |-> key.dbid,
                  queryid |-> IF allowed THEN key.queryid ELSE 0,
                  planid |-> IF allowed THEN key.planid ELSE 0,
                  plan |-> plan, counters |-> tmp]]

\* the scan over the table in hash_seq_search order
RECURSIVE ScanTable(_, _, _, _, _, _, _, _)
ScanTable(tab, order, i, buffer, userid, is_allowed_role, fmt, ub) ==
    IF i > Len(order) THEN [failed |-> FALSE, rows |-> <<>>]
    ELSE LET e == ScanEntry(order[i], tab[order[i]], buffer, userid,
                            is_allowed_role, fmt, ub)
             rest == ScanTable(tab, order, i + 1, buffer, userid,
                               is_allowed_role, fmt, ub)
         IN  IF e.crash \/ rest.failed THEN [failed |-> TRUE, rows |-> <<>>]
             ELSE IF e.skip THEN rest
             ELSE [failed |-> FALSE, rows |-> <<e.row>> \o rest.rows]

\* the caller's identity and the look at extent, n_writers and gc_count
pgsp_internal_begin(p) ==
    /\ pc[p] = "idle"
    /\ ops < MaxOps
    /\ \E userid \in Users, allowed \in BOOLEAN, fmt \in PlanFormats :
         loc' = [loc EXCEPT ![p] =
                   [NoLoc EXCEPT !.userid = userid,
                                 !.is_allowed_role = allowed,
                                 !.plan_format = fmt,
                                 !.extent = shared_state.extent,
                                 !.n_writers = shared_state.n_writers,
                                 !.gc_count = shared_state.gc_count]]
    /\ pc' = [pc EXCEPT ![p] = "sn_load"]
    /\ ops' = ops + 1
    /\ UNCHANGED <<pm_vars, session, pgsp_max, executor, sync, stats>>
    /\ UNCHANGED <<plan_storage, lock, hash_table, shared_state, text_file,
                   now, acct, gc_runs>>

\* the speculative load without the lock
pgsp_internal_load(p) ==
    /\ pc[p] = "sn_load"
    /\ IF loc[p].n_writers = 0 /\ plan_storage = "file"
       THEN \E ok \in BOOLEAN :
              loc' = [loc EXCEPT ![p].pbuffer = ptext_load_file(text_file, ok)]
       ELSE loc' = loc
    /\ pc' = [pc EXCEPT ![p] = "sn_lock"]
    /\ UNCHANGED <<pm_vars, session, pgsp_max, executor, sync, stats>>
    /\ UNCHANGED <<plan_storage, lock, hash_table, shared_state, text_file,
                   now, ops, acct, gc_runs>>

\* the test that decides the reload under the lock
MustReload(pbuffer, extent, gc_count, ss) ==
    ~pbuffer.ok \/ ss.extent # extent \/ ss.gc_count # gc_count

\* LWLockAcquire(LW_SHARED) and the reload
pgsp_internal_lock(p) ==
    /\ pc[p] = "sn_lock"
    /\ CanShare
    /\ lock' = AcquireShared(p)
    /\ IF plan_storage = "file"
          /\ MustReload(loc[p].pbuffer, loc[p].extent, loc[p].gc_count,
                        shared_state)
       THEN \E ok \in BOOLEAN :
              loc' = [loc EXCEPT ![p].pbuffer = ptext_load_file(text_file, ok)]
       ELSE loc' = loc
    /\ pc' = [pc EXCEPT ![p] = "sn_scan"]
    /\ UNCHANGED <<pm_vars, session, pgsp_max, executor, sync, stats>>
    /\ UNCHANGED <<plan_storage, hash_table, shared_state, text_file, now,
                   ops, acct, gc_runs>>

\* (variant: the scan ages the entries it visits)
pgsp_internal_scan_aging(p) ==
    /\ pc[p] = "sn_scan"
    /\ \E order \in Perms(DOMAIN hash_table), ub \in {"crash", "garbage"} :
         LET r == ScanTable(hash_table, order, 1, loc[p].pbuffer,
                            loc[p].userid, loc[p].is_allowed_role,
                            loc[p].plan_format, ub)
         IN  loc' = [loc EXCEPT ![p].rows = r.rows, ![p].failed = r.failed]
    /\ hash_table' = DecayedTable(hash_table)
    /\ pc' = [pc EXCEPT ![p] = "sn_done"]
    /\ UNCHANGED <<pm_vars, session, pgsp_max, executor, sync, stats>>
    /\ UNCHANGED <<plan_storage, lock, shared_state, text_file, now, ops,
                   acct, gc_runs>>

\* the loop over the entries, filling the tuplestore
pgsp_internal_scan(p) ==
    /\ pc[p] = "sn_scan"
    /\ \E order \in Perms(DOMAIN hash_table), ub \in {"crash", "garbage"} :
         LET r == ScanTable(hash_table, order, 1, loc[p].pbuffer,
                            loc[p].userid, loc[p].is_allowed_role,
                            loc[p].plan_format, ub)
         IN  loc' = [loc EXCEPT ![p].rows = r.rows, ![p].failed = r.failed]
    /\ pc' = [pc EXCEPT ![p] = "sn_done"]
    /\ UNCHANGED <<pm_vars, session, pgsp_max, executor, sync, stats>>
    /\ UNCHANGED <<plan_storage, lock, hash_table, shared_state, text_file,
                   now, ops, acct, gc_runs>>

\* LWLockRelease and return
pgsp_internal_done(p) ==
    /\ pc[p] = "sn_done"
    /\ lock' = Release(p)
    /\ loc' = [loc EXCEPT ![p] = NoLoc]
    /\ pc' = [pc EXCEPT ![p] = "idle"]
    /\ UNCHANGED <<pm_vars, session, pgsp_max, executor, sync, stats>>
    /\ UNCHANGED <<plan_storage, hash_table, shared_state, text_file, now,
                   ops, acct, gc_runs>>

(* ------------------------------ entry_reset ---------------------------- *)
entry_reset_lock(p) ==
    /\ pc[p] = "idle"
    /\ ops < MaxOps
    /\ CanExcl
    /\ lock' = AcquireExcl(p)
    /\ loc' = [loc EXCEPT ![p] = NoLoc]
    /\ pc' = [pc EXCEPT ![p] = "rs_body"]
    /\ ops' = ops + 1
    /\ UNCHANGED <<pm_vars, session, pgsp_max, executor, sync, stats>>
    /\ UNCHANGED <<plan_storage, hash_table, shared_state, text_file, now,
                   acct, gc_runs>>

\* (variant: the reset keeps the old reset timestamp)
ResetStats_keep_time(ss, stats_reset) == [ss EXCEPT !.dealloc = 0]

\* the global statistics block of entry_reset
ResetStats(ss, stats_reset) ==
    [ss EXCEPT !.dealloc = 0, !.stats_reset = stats_reset]

\* everything entry_reset does under the lock; opened is the outcome of
\* AllocateFile(PGSP_TEXT_FILE, "w")
entry_reset_body(p) ==
    /\ pc[p] = "rs_body"
    /\ hash_table' = Without(hash_table, DOMAIN hash_table)
    /\ \E opened \in BOOLEAN :
         /\ text_file' = IF opened THEN <<>> ELSE text_file
         /\ loc' = [loc EXCEPT ![p].failed = ~opened]
    /\ shared_state' = [ResetStats(shared_state, now) EXCEPT !.extent = 0]
    /\ now' = now + 1
    /\ pc' = [pc EXCEPT ![p] = "rs_done"]
    /\ UNCHANGED <<pm_vars, session, pgsp_max, executor, sync, stats>>
    /\ UNCHANGED <<plan_storage, lock, ops, acct, gc_runs>>

entry_reset_done(p) ==
    /\ pc[p] = "rs_done"
    /\ lock' = Release(p)
    /\ loc' = [loc EXCEPT ![p] = NoLoc]
    /\ pc' = [pc EXCEPT ![p] = "idle"]
    /\ UNCHANGED <<pm_vars, session, pgsp_max, executor, sync, stats>>
    /\ UNCHANGED <<plan_storage, hash_table, shared_state, text_file, now,
                   ops, acct, gc_runs>>

Next ==
    \E p \in Procs :
        \/ pgsp_store_lookup(p)
        \/ ptext_store_reserve(p)
        \/ ptext_store_write(p)
        \/ pgsp_store_release_shared(p)
        \/ pgsp_store_lock_excl(p)
        \/ entry_alloc_loop(p)
        \/ entry_alloc_enter(p)
        \/ entry_alloc_init(p)
        \/ pgsp_store_update(p)
        \/ pgsp_store_done(p)
        \/ pgsp_internal_begin(p)
        \/ pgsp_internal_load(p)
        \/ pgsp_internal_lock(p)
        \/ pgsp_internal_scan(p)
        \/ pgsp_internal_done(p)
        \/ entry_reset_lock(p)
        \/ entry_reset_body(p)
        \/ entry_reset_done(p)

Spec == Init /\ [][Next]_vars

(* ----------------------- shutdown and startup -------------------------- *)
\* The hooks run in the postmaster while no backend exists.  The GUC
\* pg_store_plans.save (dump_on_shutdown) is on, its default; unlink()
\* succeeds.

FreshState(t) ==
    [cur_median_usage |-> ASSUMED_MEDIAN_INIT,
     mean_plan_len |-> ASSUMED_LENGTH_INIT,
     extent |-> 0, n_writers |-> 0, gc_count |-> 0,
     dealloc |-> 0, stats_reset |-> t]

\* the text pgsp_shmem_shutdown resolves for an entry (pstr)
DumpText(entry, buffer) ==
    IF plan_storage = "file"
    THEN ptext_fetch(entry.plan_offset, entry.plan_len, buffer)
    ELSE [ok |-> TRUE, str |-> entry.text]

\* one record of the dump: the pgspEntry struct and the text after it
DumpRecord(key, entry, pstr) ==
    [key |-> key, counters |-> entry.counters, plan_len |-> entry.plan_len,
     encoding_ok |-> TRUE, text |-> pstr]

\* the loop of pgsp_shmem_shutdown over the entries, from the i-th of order
RECURSIVE DumpRecords(_, _, _, _)
DumpRecords(tab, order, i, buffer) ==
    IF i > Len(order) THEN <<>>
    ELSE LET pstr == DumpText(tab[order[i]], buffer)
             rest == DumpRecords(tab, order, i + 1, buffer)
         IN  IF ~pstr.ok THEN rest
             ELSE <<DumpRecord(order[i], tab[order[i]], pstr.str)>> \o rest

\* the file pgsp_shmem_shutdown writes
DumpImage(tab, order, buffer) ==
    LET recs == DumpRecords(tab, order, 1, buffer)
    IN  [exists |-> TRUE, magic |-> PGSP_FILE_HEADER,
         pgver |-> PGSP_PG_MAJOR_VERSION, num |-> Count(tab),
         recs |-> recs, len |-> 3 + 2 * Len(recs)]

\* pgsp_shmem_shutdown: written is the fate of the writes to the temporary
\* file (open, fwrite, close), loaded that of ptext_load_file, renamed that
\* of rename(); shared memory goes away with the server
pgsp_shmem_shutdown ==
    /\ postmaster.state = "up"
    /\ ops < MaxRestarts
    /\ \A p \in Procs : pc[p] = "idle"
    /\ \E written \in BOOLEAN, loaded \in BOOLEAN, renamed \in BOOLEAN,
          order \in Perms(DOMAIN hash_table) :
         LET buffer == ptext_load_file(text_file, loaded)
             ok == written /\ (plan_storage = "file" => loaded)
         IN  /\ dump_file' = IF ok /\ renamed
                             THEN DumpImage(hash_table, order, buffer)
                             ELSE dump_file
             /\ text_file' = IF ok THEN <<>> ELSE text_file
             /\ postmaster' =
                  [Running EXCEPT
                     !.state = "down",
                     !.old_table = hash_table,
                     !.old_texts =
                         [k \in DOMAIN hash_table |->
                            DumpText(hash_table[k],
                                     ptext_load_file(text_file, TRUE))],
                     !.dumped = ok /\ renamed]
    /\ hash_table' = EmptyTable
    /\ ops' = ops + 1
    /\ UNCHANGED <<plan_storage, lock, shared_state, now, pc, loc, acct,
                   gc_runs, session, pgsp_max, executor, sync, stats>>

\* what can happen to the dump file while the server is down: it is cut
\* short, or the magic word, the version word (a server upgrade) or the
\* encoding of a record is no longer what the server accepts
Damages(file) ==
    {[file EXCEPT !.len = n] : n \in 0..(file.len - 1)}
        \cup {[file EXCEPT !.magic = PGSP_FILE_HEADER + 1],
              [file EXCEPT !.pgver = PGSP_PG_MAJOR_VERSION + 100]}
        \cup {[file EXCEPT !.recs[j].encoding_ok = FALSE] :
                j \in 1..Len(file.recs)}

damage_dump_file ==
    /\ postmaster.state = "down"
    /\ dump_file.exists
    /\ ~postmaster.damaged
    /\ dump_file' \in Damages(dump_file)
    /\ postmaster' = [postmaster EXCEPT !.damaged = TRUE]
    /\ UNCHANGED <<plan_storage, lock, hash_table, shared_state, text_file,
                   now, ops, pc, loc, acct, gc_runs, session, pgsp_max,
                   executor, sync, stats>>

\* the labels read_error, data_error, write_error and fail of
\* pgsp_shmem_startup: the dump file is unlinked, the table is left alone
startup_fail(pm, file, label) ==
    [pm |-> [pm EXCEPT !.state = "up", !.error = label], file |-> NoFile]

\* pgsp_shmem_startup up to the entry loop: fresh shared memory, a new text
\* file (opened says whether it could be created), the header of the dump
\* (readable says whether an existing dump could be opened).  When the text
\* file cannot be created the code reaches fail with the local "file" never
\* assigned: FreeFile(file) then does nothing or crashes the postmaster
pgsp_shmem_startup_begin ==
    /\ postmaster.state = "down"
    /\ hash_table' = EmptyTable
    /\ shared_state' = FreshState(now)
    /\ text_file' = <<>>
    /\ \E opened \in BOOLEAN, readable \in BOOLEAN,
          ub \in {"null", "wild"} :
         LET pm == [postmaster EXCEPT
                      !.found_file = dump_file, !.i = 0, !.nread = 0,
                      !.io_failed =
                          \/ plan_storage = "file" /\ ~opened
                          \/ dump_file.exists /\ ~readable]
         IN  IF plan_storage = "file" /\ ~opened
             THEN /\ postmaster' =
                       IF ub = "wild"
                       THEN [pm EXCEPT !.state = "crashed",
                                       !.error = "write_error"]
                       ELSE startup_fail(pm, dump_file, "write_error").pm
                  /\ dump_file' =
                       IF ub = "wild" THEN dump_file
                       ELSE startup_fail(pm, dump_file, "write_error").file
             ELSE IF ~dump_file.exists
             THEN /\ postmaster' = [pm EXCEPT !.state = "up"]
                  /\ dump_file' = dump_file
             ELSE IF ~readable \/ dump_file.len < 3
             THEN /\ postmaster' = startup_fail(pm, dump_file, "read_error").pm
                  /\ dump_file' = startup_fail(pm, dump_file, "read_error").file
             ELSE IF dump_file.magic # PGSP_FILE_HEADER
                     \/ dump_file.pgver # PGSP_PG_MAJOR_VERSION
             THEN /\ postmaster' = startup_fail(pm, dump_file, "data_error").pm
                  /\ dump_file' = startup_fail(pm, dump_file, "data_error").file
             ELSE /\ postmaster' = [pm EXCEPT !.state = "loading"]
                  /\ dump_file' = dump_file
    /\ now' = now + 1
    /\ UNCHANGED <<plan_storage, lock, ops, pc, loc, acct, gc_runs, session,
                   pgsp_max, executor, sync, stats>>

\* the entry startup makes of a record: entry_alloc's initialisation, the
\* text in shmem mode, "entry->counters = temp.counters"
LoadedEntry(rec, plan_offset) ==
    [InitEntry([counters |-> ZeroCounters, plan_offset |-> 0, plan_len |-> 0,
                text |-> IF plan_storage = "shmem" THEN rec.text ELSE ""],
               plan_offset, rec.plan_len)
       EXCEPT !.counters = rec.counters]

\* one turn of "for (i = 0; i < num; i++)" of pgsp_shmem_startup, or the
\* normal exit after it; wrote is the fate of the fwrite to the text file
pgsp_shmem_startup_record ==
    /\ postmaster.state = "loading"
    /\ LET i == postmaster.i
           base == 3 + 2 * i
           rec == dump_file.recs[i + 1]
           next == [postmaster EXCEPT !.i = i + 1, !.nread = i + 1]
       IN  IF i >= dump_file.num
           THEN /\ postmaster' = [postmaster EXCEPT !.state = "up"]
                /\ dump_file' = NoFile
                /\ UNCHANGED <<hash_table, shared_state, text_file>>
           ELSE IF base + 1 > dump_file.len
           THEN /\ postmaster' =
                       startup_fail(postmaster, dump_file, "read_error").pm
                /\ dump_file' =
                       startup_fail(postmaster, dump_file, "read_error").file
                /\ UNCHANGED <<hash_table, shared_state, text_file>>
           ELSE IF ~rec.encoding_ok
           THEN /\ postmaster' =
                       startup_fail(postmaster, dump_file, "data_error").pm
                /\ dump_file' =
                       startup_fail(postmaster, dump_file, "data_error").file
                /\ UNCHANGED <<hash_table, shared_state, text_file>>
           ELSE IF base + 2 > dump_file.len
           THEN /\ postmaster' =
                       startup_fail(postmaster, dump_file, "read_error").pm
                /\ dump_file' =
                       startup_fail(postmaster, dump_file, "read_error").file
                /\ UNCHANGED <<hash_table, shared_state, text_file>>
           ELSE IF rec.counters.calls = 0
           THEN /\ postmaster' = next
                /\ UNCHANGED <<dump_file, hash_table, shared_state,
                               text_file>>
           ELSE \E wrote \in BOOLEAN, V \in SUBSET (DOMAIN hash_table),
                   u \in UninitLocals :
                  IF plan_storage = "file" /\ ~wrote
                  THEN /\ V = {}
                       /\ u = <<0, 0>>
                       /\ postmaster' =
                              [startup_fail(postmaster, dump_file,
                                            "write_error").pm
                                 EXCEPT !.io_failed = TRUE]
                       /\ dump_file' =
                              startup_fail(postmaster, dump_file,
                                           "write_error").file
                       /\ UNCHANGED <<hash_table, shared_state, text_file>>
                  ELSE LET full == Count(hash_table) >= store_size
                           plan_offset == IF plan_storage = "file"
                                          THEN shared_state.extent ELSE 0
                           ss1 == IF plan_storage = "file"
                                  THEN [shared_state EXCEPT
                                          !.extent = @ + rec.plan_len + 1]
                                  ELSE shared_state
                           r == IF full
                                THEN entry_dealloc(hash_table, ss1, V,
                                                   u[1], u[2])
                                ELSE [tab |-> hash_table, ss |-> ss1]
                       IN  /\ wrote
                           /\ IF full
                              THEN IsVictimSet(DecayedTable(hash_table), V)
                              ELSE V = {} /\ u = <<0, 0>>
                           /\ text_file' =
                                  IF plan_storage = "file"
                                  THEN FileWrite(text_file, plan_offset,
                                                 rec.text)
                                  ELSE text_file
                           /\ hash_table' =
                                  With(r.tab, rec.key,
                                       LoadedEntry(rec, plan_offset))
                           /\ shared_state' = r.ss
                           /\ postmaster' =
                                  [next EXCEPT !.evicted = @ \/ full]
                           /\ dump_file' = dump_file
    /\ UNCHANGED <<plan_storage, lock, now, ops, pc, loc, acct, gc_runs,
                   session, pgsp_max, executor, sync, stats>>

\* the tables a server can hold when it is shut down: up to
\* DumpMaxEntries entries, each executed once ("run"), still at calls = 0
\* ("new": entry_alloc's initialisation, the case startup's "Skip loading
\* sticky entries" test provides for), or executed with its text lost to a
\* failed garbage collection ("lost", file mode: plan_len = -1)
EntryKinds == {"run", "new", "lost"}
KeySeqs ==
    UNION {{ks \in [1..n -> Keys] : \A a, b \in 1..n : a # b => ks[a] # ks[b]}
              : n \in 0..DumpMaxEntries}
TextOf(key) == (CHOOSE pl \in Plans : pl.planid = key.planid).text
EntryOfKind(key, kind, slot) ==
    [counters |->
        IF kind = "new" THEN [ZeroCounters EXCEPT !.usage = USAGE_INIT]
        ELSE UpdateCounters([ZeroCounters EXCEPT !.usage = USAGE_INIT],
                            CHOOSE e \in Execs : TRUE, 0),
     plan_offset |-> IF plan_storage = "file" /\ kind # "lost"
                     THEN (slot - 1) * RecLen ELSE 0,
     plan_len |-> IF kind = "lost" THEN -1 ELSE ClipLen(PlanLen),
     text |-> IF plan_storage = "shmem" THEN TextOf(key) ELSE ""]

DumpInit ==
    /\ plan_storage \in StorageModes
    /\ \E ks \in KeySeqs, kinds \in [1..DumpMaxEntries -> EntryKinds] :
         /\ \A j \in 1..DumpMaxEntries :
                \/ j <= Len(ks) /\ (kinds[j] = "lost" => plan_storage = "file")
                \/ j > Len(ks) /\ kinds[j] = "run"
         /\ hash_table = [k \in {ks[j] : j \in 1..Len(ks)} |->
                            LET j == CHOOSE j \in 1..Len(ks) : ks[j] = k
                            IN  EntryOfKind(k, kinds[j], j)]
         /\ text_file = IF plan_storage = "file"
                        THEN [j \in 1..Len(ks) |->
                                IF kinds[j] = "lost" THEN ""
                                ELSE TextOf(ks[j])]
                        ELSE <<>>
         /\ shared_state =
                [FreshState(0) EXCEPT
                   !.extent = IF plan_storage = "file"
                              THEN Len(ks) * RecLen ELSE 0]
    /\ lock = [excl |-> 0, shared |-> {}]
    /\ now = 1
    /\ ops = 0
    /\ pc = [p \in Procs |-> "idle"]
    /\ loc = [p \in Procs |-> NoLoc]
    /\ acct = [k \in Keys |-> ZeroAcct]
    /\ gc_runs = 0
    /\ postmaster = Running
    /\ dump_file = NoFile
    /\ session = NoSession
    /\ pgsp_max = store_size
    /\ executor = NoExecutor
    /\ sync = NoSync
    /\ stats = NoStats

DumpNext ==
    \/ pgsp_shmem_shutdown
    \/ damage_dump_file
    \/ pgsp_shmem_startup_begin
    \/ pgsp_shmem_startup_record

SpecDump == DumpInit /\ [][DumpNext]_vars

(* ===================== the plan transcoders (pgsp_json.c) ============== *)
\* A text is a sequence of lexemes [k, v]: the punctuation of JSON (k = v =
\* the character), "str" (a string, v its content without the quotes and
\* escapes), "num" (a number), "lit" (true, false, null), "ws" (white space,
\* v = "\n" or a run of blanks), "txt" (output that is not JSON) and "bad"
\* (bytes that are no JSON token, such as a string cut before its closing
\* quote).  Strings hold no character that escape_json would escape.
P(c) == [k |-> c, v |-> c]
Str(s) == [k |-> "str", v |-> s]
Num(s) == [k |-> "num", v |-> s]
Lit(s) == [k |-> "lit", v |-> s]
Ws(s) == [k |-> "ws", v |-> s]
Txt(s) == [k |-> "txt", v |-> s]
Bad == [k |-> "bad", v |-> "\"cut"]
EndToken == [k |-> "end", v |-> ""]
NullPtr == "(null)"

\* the bytes of a lexeme and of a text
RenderLexeme(x) == IF x.k = "str" THEN "\"" \o x.v \o "\"" ELSE x.v
RECURSIVE Render(_)
Render(text) ==
    IF text = <<>> THEN ""
    ELSE IF Len(text) = 1 THEN RenderLexeme(text[1])
    ELSE LET h == Len(text) \div 2
         IN  Render(SubSeq(text, 1, h))
                 \o Render(SubSeq(text, h + 1, Len(text)))

PGSP_JSON_SHORTEN == "shorten"
PGSP_JSON_INFLATE == "inflate"
PGSP_JSON_TEXTIZE == "textize"
PGSP_JSON_YAMLIZE == "yamlize"
PGSP_JSON_XMLIZE == "xmlize"
PGSP_JSON_NORMALIZE == "normalize"

W(tag, shortname, longname, textname, normalize_use, converter, setter) ==
    [tag |-> tag, shortname |-> shortname, longname |-> longname,
     textname |-> textname, normalize_use |-> normalize_use,
     converter |-> converter, setter |-> setter]


\* The word tables of pgsp_json.c, row for row.  A NULL textname is written
\* "(null)", a NULL converter or setter "NULL".  The short name of
\* "Parallel Aware" is a grave accent in the source and an apostrophe here.
propfields ==
  <<
    W("P_NodeType", "t", "Node Type",
      "(null)", TRUE, "conv_nodetype", "node_type"),
    W("P_RelationShip", "h", "Parent Relationship",
      "(null)", TRUE, "conv_relasionship", "NULL"),
    W("P_RelationName", "n", "Relation Name",
      "(null)", TRUE, "NULL", "obj_name"),
    W("P_FunctioName", "f", "Function Name",
      "(null)", TRUE, "NULL", "obj_name"),
    W("P_IndexName", "i", "Index Name", "(null)", TRUE, "NULL", "index_name"),
    W("P_CTEName", "c", "CTE Name", "(null)", TRUE, "NULL", "obj_name"),
    W("P_TrgRelation", "w", "Relation",
      "(null)", TRUE, "NULL", "trig_relation"),
    W("P_Schema", "s", "Schema", "(null)", TRUE, "NULL", "schema_name"),
    W("P_Alias", "a", "Alias", "(null)", TRUE, "NULL", "alias"),
    W("P_Output", "o", "Output", "(null)", TRUE, "conv_expression", "output"),
    W("P_ScanDir", "d", "Scan Direction",
      "(null)", TRUE, "conv_scandir", "scan_dir"),
    W("P_MergeCond", "m", "Merge Cond",
      "(null)", TRUE, "conv_expression", "merge_cond"),
    W("P_Strategy", "g", "Strategy",
      "(null)", TRUE, "conv_strategy", "strategy"),
    W("P_JoinType", "j", "Join Type",
      "(null)", TRUE, "conv_jointype", "join_type"),
    W("P_SortMethod", "e", "Sort Method",
      "(null)", TRUE, "conv_sortmethod", "sort_method"),
    W("P_SortKey", "k", "Sort Key",
      "(null)", TRUE, "conv_expression", "sort_key"),
    W("P_Filter", "5", "Filter", "(null)", TRUE, "conv_expression", "filter"),
    W("P_JoinFilter", "6", "Join Filter",
      "(null)", TRUE, "conv_expression", "join_filter"),
    W("P_HashCond", "7", "Hash Cond",
      "(null)", TRUE, "conv_expression", "hash_cond"),
    W("P_IndexCond", "8", "Index Cond",
      "(null)", TRUE, "conv_expression", "index_cond"),
    W("P_TidCond", "9", "TID Cond",
      "(null)", TRUE, "conv_expression", "tid_cond"),
    W("P_RecheckCond", "0", "Recheck Cond",
      "(null)", TRUE, "conv_expression", "recheck_cond"),
    W("P_Operation", "!", "Operation",
      "(null)", TRUE, "conv_operation", "operation"),
    W("P_SubplanName", "q", "Subplan Name",
      "(null)", TRUE, "NULL", "subplan_name"),
    W("P_Command", "b", "Command",
      "(null)", TRUE, "conv_setsetopcommand", "setopcommand"),
    W("P_Triggers", "r", "Triggers", "(null)", TRUE, "NULL", "NULL"),
    W("P_Trigger", "u", "Trigger", "(null)", TRUE, "NULL", "node_type"),
    W("P_TriggerName", "v", "Trigger Name",
      "(null)", TRUE, "NULL", "trig_name"),
    W("P_ConstraintName", "x", "Constraint Name",
      "(null)", TRUE, "NULL", "NULL"),
    W("P_Plans", "l", "Plans", "(null)", TRUE, "NULL", "NULL"),
    W("P_Plan", "p", "Plan", "(null)", TRUE, "NULL", "NULL"),
    W("P_GroupKey", "-", "Group Key", "(null)", TRUE, "NULL", "group_key"),
    W("P_GroupSets", "=", "Grouping Sets", "(null)", TRUE, "NULL", "NULL"),
    W("P_GroupKeys", "\\", "Group Keys", "(null)", TRUE, "NULL", "group_key"),
    W("P_HashKeys", "~", "Hash Keys", "(null)", TRUE, "NULL", "hash_key"),
    W("P_HashKey", "|", "Hash Key", "(null)", TRUE, "NULL", "hash_key"),
    W("P_Parallel", "'", "Parallel Aware",
      "(null)", TRUE, "NULL", "parallel_aware"),
    W("P_PartialMode", ">", "Partial Mode",
      "(null)", TRUE, "conv_partialmode", "partial_mode"),
    W("P_WorkersPlanned", "{", "Workers Planned",
      "(null)", TRUE, "NULL", "workers_planned"),
    W("P_WorkersLaunched", "}", "Workers Launched",
      "(null)", TRUE, "NULL", "workers_launched"),
    W("P_InnerUnique", "?", "Inner Unique",
      "(null)", TRUE, "NULL", "inner_unique"),
    W("P_AsyncCapable", "ac", "Async Capable",
      "(null)", TRUE, "NULL", "async_capable"),
    W("P_FunctionCall", "y", "Function Call",
      "(null)", FALSE, "NULL", "func_call"),
    W("P_StartupCost", "1", "Startup Cost",
      "(null)", FALSE, "NULL", "startup_cost"),
    W("P_TotalCost", "2", "Total Cost", "(null)", FALSE, "NULL", "total_cost"),
    W("P_PlanRows", "3", "Plan Rows", "(null)", FALSE, "NULL", "plan_rows"),
    W("P_PlanWidth", "4", "Plan Width", "(null)", FALSE, "NULL", "plan_width"),
    W("P_ActualStartupTime", "A", "Actual Startup Time",
      "(null)", FALSE, "NULL", "actual_startup_time"),
    W("P_ActualTotalTime", "B", "Actual Total Time",
      "(null)", FALSE, "NULL", "actual_total_time"),
    W("P_ActualRows", "C", "Actual Rows",
      "(null)", FALSE, "NULL", "actual_rows"),
    W("P_ActualLoops", "D", "Actual Loops",
      "(null)", FALSE, "NULL", "actual_loops"),
    W("P_HeapFetches", "E", "Heap Fetches",
      "(null)", FALSE, "NULL", "heap_fetches"),
    W("P_SharedHitBlks", "F", "Shared Hit Blocks",
      "(null)", FALSE, "NULL", "shared_hit_blks"),
    W("P_SharedReadBlks", "G", "Shared Read Blocks",
      "(null)", FALSE, "NULL", "shared_read_blks"),
    W("P_SharedDirtiedBlks", "H", "Shared Dirtied Blocks",
      "(null)", FALSE, "NULL", "shared_dirtied_blks"),
    W("P_SharedWrittenBlks", "I", "Shared Written Blocks",
      "(null)", FALSE, "NULL", "shared_written_blks"),
    W("P_LocalHitBlks", "J", "Local Hit Blocks",
      "(null)", FALSE, "NULL", "local_hit_blks"),
    W("P_LocalReadBlks", "K", "Local Read Blocks",
      "(null)", FALSE, "NULL", "local_read_blks"),
    W("P_LocalDirtiedBlks", "L", "Local Dirtied Blocks",
      "(null)", FALSE, "NULL", "local_dirtied_blks"),
    W("P_LocalWrittenBlks", "M", "Local Written Blocks",
      "(null)", FALSE, "NULL", "local_written_blks"),
    W("P_TempReadBlks", "N", "Temp Read Blocks",
      "(null)", FALSE, "NULL", "temp_read_blks"),
    W("P_TempWrittenBlks", "O", "Temp Written Blocks",
      "(null)", FALSE, "NULL", "temp_written_blks"),
    W("P_IOReadTime", "P", "I/O Read Time",
      "(null)", FALSE, "NULL", "io_read_time"),
    W("P_IOWwriteTime", "Q", "I/O Write Time",
      "(null)", FALSE, "NULL", "io_write_time"),
    W("P_SortSpaceUsed", "R", "Sort Space Used",
      "(null)", FALSE, "NULL", "sort_space_used"),
    W("P_SortSpaceType", "S", "Sort Space Type",
      "(null)", FALSE, "conv_sortspacetype", "sort_space_type"),
    W("P_PeakMemoryUsage", "T", "Peak Memory Usage",
      "(null)", FALSE, "NULL", "peak_memory_usage"),
    W("P_OrgHashBatches", "U", "Original Hash Batches",
      "(null)", FALSE, "NULL", "org_hash_batches"),
    W("P_OrgHashBuckets", "*", "Original Hash Buckets",
      "(null)", FALSE, "NULL", "org_hash_buckets"),
    W("P_HashBatches", "V", "Hash Batches",
      "(null)", FALSE, "NULL", "hash_batches"),
    W("P_HashBuckets", "W", "Hash Buckets",
      "(null)", FALSE, "NULL", "hash_buckets"),
    W("P_RowsFilterRmvd", "X", "Rows Removed by Filter",
      "(null)", FALSE, "NULL", "filter_removed"),
    W("P_RowsIdxRchkRmvd", "Y", "Rows Removed by Index Recheck",
      "(null)", FALSE, "NULL", "idxrchk_removed"),
    W("P_TrgTime", "Z", "Time", "(null)", FALSE, "NULL", "trig_time"),
    W("P_TrgCalls", "z", "Calls", "(null)", FALSE, "NULL", "trig_calls"),
    W("P_PlanTime", "#", "Planning Time",
      "(null)", FALSE, "NULL", "plan_time"),
    W("P_ExecTime", "$", "Execution Time",
      "(null)", FALSE, "NULL", "exec_time"),
    W("P_ExactHeapBlks", "&", "Exact Heap Blocks",
      "(null)", FALSE, "NULL", "exact_heap_blks"),
    W("P_LossyHeapBlks", "(", "Lossy Heap Blocks",
      "(null)", FALSE, "NULL", "lossy_heap_blks"),
    W("P_RowsJoinFltRemvd", ")", "Rows Removed by Join Filter",
      "(null)", FALSE, "NULL", "joinfilt_removed"),
    W("P_TargetTables", "_", "Target Tables", "(null)", FALSE, "NULL", "NULL"),
    W("P_ConfRes", "%", "Conflict Resolution",
      "(null)", FALSE, "NULL", "conflict_resolution"),
    W("P_ConfArbitIdx", "@", "Conflict Arbiter Indexes",
      "(null)", FALSE, "NULL", "conflict_arbiter_indexes"),
    W("P_TuplesInserted", "^", "Tuples Inserted",
      "(null)", FALSE, "NULL", "tuples_inserted"),
    W("P_ConfTuples", "+", "Conflicting Tuples",
      "(null)", FALSE, "NULL", "conflicting_tuples"),
    W("P_SamplingMethod", ":", "Sampling Method",
      "(null)", FALSE, "NULL", "sampling_method"),
    W("P_SamplingParams", ";", "Sampling Parameters",
      "(null)", FALSE, "NULL", "sampling_params"),
    W("P_RepeatableSeed", "<", "Repeatable Seed",
      "(null)", FALSE, "NULL", "repeatable_seed"),
    W("P_Workers", "[", "Workers", "(null)", FALSE, "NULL", "NULL"),
    W("P_WorkerNumber", "]", "Worker Number",
      "(null)", FALSE, "NULL", "worker_number"),
    W("P_TableFuncName", "aa", "Table Function Name",
      "(null)", FALSE, "NULL", "table_func_name"),
    W("P_PresortedKey", "pk", "Presorted Key",
      "(null)", FALSE, "NULL", "presorted_key"),
    W("P_FullsortGroups", "fg", "Full-sort Groups",
      "(null)", FALSE, "NULL", "NULL"),
    W("P_SortMethodsUsed", "su", "Sort Methods Used",
      "(null)", FALSE, "NULL", "sortmethod_used"),
    W("P_SortSpaceMemory", "sm", "Sort Space Memory",
      "(null)", FALSE, "NULL", "sortspace_mem"),
    W("P_GroupCount", "gc", "Group Count",
      "(null)", FALSE, "NULL", "group_count"),
    W("P_AvgSortSpcUsed", "as", "Average Sort Space Used",
      "(null)", FALSE, "NULL", "avg_sortspc_used"),
    W("P_PeakSortSpcUsed", "ps", "Peak Sort Space Used",
      "(null)", FALSE, "NULL", "peak_sortspc_used"),
    W("P_PreSortedGroups", "pg", "Pre-sorted Groups",
      "(null)", FALSE, "NULL", "NULL")
  >>

nodetypes ==
  <<
    W("T_Result", "a", "Result", "(null)", FALSE, "NULL", "NULL"),
    W("T_ModifyTable", "b", "ModifyTable", "(null)", FALSE, "NULL", "NULL"),
    W("T_Append", "c", "Append", "(null)", FALSE, "NULL", "NULL"),
    W("T_MergeAppend", "d", "Merge Append", "(null)", FALSE, "NULL", "NULL"),
    W("T_RecursiveUnion", "e", "Recursive Union",
      "(null)", FALSE, "NULL", "NULL"),
    W("T_BitmapAnd", "f", "BitmapAnd", "(null)", FALSE, "NULL", "NULL"),
    W("T_BitmapOr", "g", "BitmapOr", "(null)", FALSE, "NULL", "NULL"),
    W("T_Scan", "", "", "", FALSE, "NULL", "NULL"),
    W("T_SeqScan", "h", "Seq Scan", "(null)", FALSE, "NULL", "NULL"),
    W("T_IndexScan", "i", "Index Scan", "(null)", FALSE, "NULL", "NULL"),
    W("T_IndexOnlyScan", "j", "Index Only Scan",
      "(null)", FALSE, "NULL", "NULL"),
    W("T_BitmapIndexScan", "k", "Bitmap Index Scan",
      "(null)", FALSE, "NULL", "NULL"),
    W("T_BitmapHeapScan", "l", "Bitmap Heap Scan",
      "(null)", FALSE, "NULL", "NULL"),
    W("T_TidScan", "m", "Tid Scan", "(null)", FALSE, "NULL", "NULL"),
    W("T_SubqueryScan", "n", "Subquery Scan", "(null)", FALSE, "NULL", "NULL"),
    W("T_FunctionScan", "o", "Function Scan", "(null)", FALSE, "NULL", "NULL"),
    W("T_ValuesScan", "p", "Values Scan", "(null)", FALSE, "NULL", "NULL"),
    W("T_CteScan", "q", "CTE Scan", "(null)", FALSE, "NULL", "NULL"),
    W("T_WorkTableScan", "r", "WorkTable Scan",
      "(null)", FALSE, "NULL", "NULL"),
    W("T_ForeignScan", "s", "Foreign Scan", "(null)", FALSE, "NULL", "NULL"),
    W("T_Join", "", "", "(null)", FALSE, "NULL", "NULL"),
    W("T_NestLoop", "t", "Nested Loop", "(null)", FALSE, "NULL", "NULL"),
    W("T_MergeJoin", "u", "Merge Join", "Merge", FALSE, "NULL", "NULL"),
    W("T_HashJoin", "v", "Hash Join", "Hash", FALSE, "NULL", "NULL"),
    W("T_Material", "w", "Materialize", "(null)", FALSE, "NULL", "NULL"),
    W("T_Sort", "x", "Sort", "(null)", FALSE, "NULL", "NULL"),
    W("T_Group", "y", "Group", "(null)", FALSE, "NULL", "NULL"),
    W("T_Agg", "z", "Aggregate", "(null)", FALSE, "NULL", "NULL"),
    W("T_WindowAgg", "0", "WindowAgg", "(null)", FALSE, "NULL", "NULL"),
    W("T_Unique", "1", "Unique", "(null)", FALSE, "NULL", "NULL"),
    W("T_Hash", "2", "Hash", "(null)", FALSE, "NULL", "NULL"),
    W("T_SetOp", "3", "SetOp", "(null)", FALSE, "NULL", "NULL"),
    W("T_LockRows", "4", "LockRows", "(null)", FALSE, "NULL", "NULL"),
    W("T_Limit", "5", "Limit", "(null)", FALSE, "NULL", "NULL"),
    W("T_SampleScan", "B", "Sample Scan", "(null)", FALSE, "NULL", "NULL"),
    W("T_Gather", "6", "Gather", "(null)", FALSE, "NULL", "NULL"),
    W("T_ProjectSet", "7", "ProjectSet", "(null)", FALSE, "NULL", "NULL"),
    W("T_TableFuncScan", "8", "Table Function Scan",
      "(null)", FALSE, "NULL", "NULL"),
    W("T_NamedTuplestoreScan", "9", "Named Tuplestore Scan",
      "(null)", FALSE, "NULL", "NULL"),
    W("T_GatherMerge", "A", "Gather Merge", "(null)", FALSE, "NULL", "NULL"),
    W("T_IncrementalSort", "C", "Incremental Sort",
      "(null)", FALSE, "NULL", "NULL"),
    W("T_TidRangeScan", "D", "Tid Range Scan",
      "(null)", FALSE, "NULL", "NULL"),
    W("T_Memoize", "E", "Memoize", "(null)", FALSE, "NULL", "NULL")
  >>

directions ==
  <<
    W("T_Invalid", "b", "Backward", "Backward", FALSE, "NULL", "NULL"),
    W("T_Invalid", "n", "NoMovement", "", FALSE, "NULL", "NULL"),
    W("T_Invalid", "f", "Forward", "", FALSE, "NULL", "NULL")
  >>

relationships ==
  <<
    W("T_Invalid", "o", "Outer", "(null)", FALSE, "NULL", "NULL"),
    W("T_Invalid", "i", "Inner", "(null)", FALSE, "NULL", "NULL"),
    W("T_Invalid", "s", "Subquery", "(null)", FALSE, "NULL", "NULL"),
    W("T_Invalid", "m", "Member", "(null)", FALSE, "NULL", "NULL"),
    W("T_Invalid", "I", "InitPlan", "(null)", FALSE, "NULL", "NULL"),
    W("T_Invalid", "S", "SubPlan", "(null)", FALSE, "NULL", "NULL")
  >>

strategies ==
  <<
    W("S_Plain", "p", "Plain", "(null)", FALSE, "NULL", "NULL"),
    W("S_Sorted", "s", "Sorted", "(null)", FALSE, "NULL", "NULL"),
    W("S_Hashed", "h", "Hashed", "(null)", FALSE, "NULL", "NULL"),
    W("S_Mixed", "m", "Mixed", "(null)", FALSE, "NULL", "NULL")
  >>

operations ==
  <<
    W("T_Invalid", "i", "Insert", "(null)", FALSE, "NULL", "NULL"),
    W("T_Invalid", "d", "Delete", "(null)", FALSE, "NULL", "NULL"),
    W("T_Invalid", "u", "Update", "(null)", FALSE, "NULL", "NULL")
  >>

jointypes ==
  <<
    W("T_Invalid", "i", "Inner", "(null)", FALSE, "NULL", "NULL"),
    W("T_Invalid", "l", "Left", "(null)", FALSE, "NULL", "NULL"),
    W("T_Invalid", "f", "Full", "(null)", FALSE, "NULL", "NULL"),
    W("T_Invalid", "r", "Right", "(null)", FALSE, "NULL", "NULL"),
    W("T_Invalid", "s", "Semi", "(null)", FALSE, "NULL", "NULL"),
    W("T_Invalid", "a", "Anti", "(null)", FALSE, "NULL", "NULL")
  >>

setsetopcommands ==
  <<
    W("T_Invalid", "i", "Intersect", "(null)", FALSE, "NULL", "NULL"),
    W("T_Invalid", "I", "Intersect All", "(null)", FALSE, "NULL", "NULL"),
    W("T_Invalid", "e", "Except", "(null)", FALSE, "NULL", "NULL"),
    W("T_Invalid", "E", "Except All", "(null)", FALSE, "NULL", "NULL")
  >>

sortmethods ==
  <<
    W("T_Invalid", "h", "top-N heapsort", "(null)", FALSE, "NULL", "NULL"),
    W("T_Invalid", "q", "quicksort", "(null)", FALSE, "NULL", "NULL"),
    W("T_Invalid", "e", "external sort", "(null)", FALSE, "NULL", "NULL"),
    W("T_Invalid", "E", "external merge", "(null)", FALSE, "NULL", "NULL"),
    W("T_Invalid", "s", "still in progress", "(null)", FALSE, "NULL", "NULL")
  >>

sortspacetype ==
  <<
    W("T_Invalid", "d", "Disk", "(null)", FALSE, "NULL", "NULL"),
    W("T_Invalid", "m", "Memory", "(null)", FALSE, "NULL", "NULL")
  >>

partialmode ==
  <<
    W("T_Invalid", "p", "Partial", "(null)", FALSE, "NULL", "NULL"),
    W("T_Invalid", "f", "Finalize", "(null)", FALSE, "NULL", "NULL"),
    W("T_Invalid", "s", "Simple", "(null)", FALSE, "NULL", "NULL")
  >>
HyphenatedNames ==
  <<
    <<"Node Type", "Node-Type">>,
    <<"Parent Relationship", "Parent-Relationship">>,
    <<"Relation Name", "Relation-Name">>,
    <<"Function Name", "Function-Name">>,
    <<"Index Name", "Index-Name">>,
    <<"CTE Name", "CTE-Name">>,
    <<"Scan Direction", "Scan-Direction">>,
    <<"Merge Cond", "Merge-Cond">>,
    <<"Join Type", "Join-Type">>,
    <<"Sort Method", "Sort-Method">>,
    <<"Sort Key", "Sort-Key">>,
    <<"Join Filter", "Join-Filter">>,
    <<"Hash Cond", "Hash-Cond">>,
    <<"Index Cond", "Index-Cond">>,
    <<"TID Cond", "TID-Cond">>,
    <<"Recheck Cond", "Recheck-Cond">>,
    <<"Subplan Name", "Subplan-Name">>,
    <<"Trigger Name", "Trigger-Name">>,
    <<"Constraint Name", "Constraint-Name">>,
    <<"Group Key", "Group-Key">>,
    <<"Grouping Sets", "Grouping-Sets">>,
    <<"Group Keys", "Group-Keys">>,
    <<"Hash Keys", "Hash-Keys">>,
    <<"Hash Key", "Hash-Key">>,
    <<"Parallel Aware", "Parallel-Aware">>,
    <<"Partial Mode", "Partial-Mode">>,
    <<"Workers Planned", "Workers-Planned">>,
    <<"Workers Launched", "Workers-Launched">>,
    <<"Inner Unique", "Inner-Unique">>,
    <<"Async Capable", "Async-Capable">>,
    <<"Function Call", "Function-Call">>,
    <<"Startup Cost", "Startup-Cost">>,
    <<"Total Cost", "Total-Cost">>,
    <<"Plan Rows", "Plan-Rows">>,
    <<"Plan Width", "Plan-Width">>,
    <<"Actual Startup Time", "Actual-Startup-Time">>,
    <<"Actual Total Time", "Actual-Total-Time">>,
    <<"Actual Rows", "Actual-Rows">>,
    <<"Actual Loops", "Actual-Loops">>,
    <<"Heap Fetches", "Heap-Fetches">>,
    <<"Shared Hit Blocks", "Shared-Hit-Blocks">>,
    <<"Shared Read Blocks", "Shared-Read-Blocks">>,
    <<"Shared Dirtied Blocks", "Shared-Dirtied-Blocks">>,
    <<"Shared Written Blocks", "Shared-Written-Blocks">>,
    <<"Local Hit Blocks", "Local-Hit-Blocks">>,
    <<"Local Read Blocks", "Local-Read-Blocks">>,
    <<"Local Dirtied Blocks", "Local-Dirtied-Blocks">>,
    <<"Local Written Blocks", "Local-Written-Blocks">>,
    <<"Temp Read Blocks", "Temp-Read-Blocks">>,
    <<"Temp Written Blocks", "Temp-Written-Blocks">>,
    <<"I/O Read Time", "I/O-Read-Time">>,
    <<"I/O Write Time", "I/O-Write-Time">>,
    <<"Sort Space Used", "Sort-Space-Used">>,
    <<"Sort Space Type", "Sort-Space-Type">>,
    <<"Peak Memory Usage", "Peak-Memory-Usage">>,
    <<"Original Hash Batches", "Original-Hash-Batches">>,
    <<"Original Hash Buckets", "Original-Hash-Buckets">>,
    <<"Hash Batches", "Hash-Batches">>,
    <<"Hash Buckets", "Hash-Buckets">>,
    <<"Rows Removed by Filter", "Rows-Removed-by-Filter">>,
    <<"Rows Removed by Index Recheck", "Rows-Removed-by-Index-Recheck">>,
    <<"Planning Time", "Planning-Time">>,
    <<"Execution Time", "Execution-Time">>,
    <<"Exact Heap Blocks", "Exact-Heap-Blocks">>,
    <<"Lossy Heap Blocks", "Lossy-Heap-Blocks">>,
    <<"Rows Removed by Join Filter", "Rows-Removed-by-Join-Filter">>,
    <<"Target Tables", "Target-Tables">>,
    <<"Conflict Resolution", "Conflict-Resolution">>,
    <<"Conflict Arbiter Indexes", "Conflict-Arbiter-Indexes">>,
    <<"Tuples Inserted", "Tuples-Inserted">>,
    <<"Conflicting Tuples", "Conflicting-Tuples">>,
    <<"Sampling Method", "Sampling-Method">>,
    <<"Sampling Parameters", "Sampling-Parameters">>,
    <<"Repeatable Seed", "Repeatable-Seed">>,
    <<"Worker Number", "Worker-Number">>,
    <<"Table Function Name", "Table-Function-Name">>,
    <<"Presorted Key", "Presorted-Key">>,
    <<"Full-sort Groups", "Full-sort-Groups">>,
    <<"Sort Methods Used", "Sort-Methods-Used">>,
    <<"Sort Space Memory", "Sort-Space-Memory">>,
    <<"Group Count", "Group-Count">>,
    <<"Average Sort Space Used", "Average-Sort-Space-Used">>,
    <<"Peak Sort Space Used", "Peak-Sort-Space-Used">>,
    <<"Pre-sorted Groups", "Pre-sorted-Groups">>,
    <<"Remote SQL", "Remote-SQL">>
  >>

\* the index in tbl of the first entry whose name is word, 0 for none
FirstWord(tbl, word, longname) ==
    LET hits == {i \in 1..Len(tbl) :
                    (IF longname THEN tbl[i].longname
                     ELSE tbl[i].shortname) = word}
    IN  IF hits = {} THEN 0
        ELSE CHOOSE i \in hits : \A j \in hits : i <= j

\* search_word_table: the index of the entry found, 0 for NULL
search_word_table(tbl, word, mode) ==
    LET longname == mode \in {PGSP_JSON_SHORTEN, PGSP_JSON_NORMALIZE}
        p == FirstWord(tbl, word, longname)
    IN  IF p = 0 /\ mode = PGSP_JSON_TEXTIZE
        THEN FirstWord(tbl, word, TRUE)
        ELSE p

\* (variant: a word that is not in the table is replaced by the first
\* entry's)
converter_core_first(tbl, src, mode) ==
    LET p == search_word_table(tbl, src, mode)
        q == IF p = 0 THEN 1 ELSE p
    IN  IF mode \in {PGSP_JSON_SHORTEN, PGSP_JSON_NORMALIZE}
        THEN tbl[q].shortname
        ELSE tbl[q].longname

converter_core(tbl, src, mode) ==
    LET p == search_word_table(tbl, src, mode)
    IN  IF p = 0 THEN src
        ELSE IF mode \in {PGSP_JSON_SHORTEN, PGSP_JSON_NORMALIZE}
        THEN tbl[p].shortname
        ELSE IF mode = PGSP_JSON_TEXTIZE
        THEN IF tbl[p].textname # NullPtr THEN tbl[p].textname
             ELSE tbl[p].longname
        ELSE tbl[p].longname

\* normalize_expr(expr, true) on the expressions the documents use: the
\* constant is masked, the blanks are kept
normalize_expr(expr) ==
    IF expr \in {"(a = 1)", "(a = 2)"} THEN "(a = ?)" ELSE expr

conv_expression(src, mode) ==
    IF mode = PGSP_JSON_NORMALIZE THEN normalize_expr(src) ELSE src

\* the word table of each converter that CONVERTER_CORE defines
ConverterTable(converter) ==
    CASE converter = "conv_nodetype" -> nodetypes
      [] converter = "conv_scandir" -> directions
      [] converter = "conv_relasionship" -> relationships
      [] converter = "conv_strategy" -> strategies
      [] converter = "conv_operation" -> operations
      [] converter = "conv_jointype" -> jointypes
      [] converter = "conv_setsetopcommand" -> setsetopcommands
      [] converter = "conv_sortmethod" -> sortmethods
      [] converter = "conv_sortspacetype" -> sortspacetype
      [] converter = "conv_partialmode" -> partialmode

CoreConverters ==
    {"conv_nodetype", "conv_scandir", "conv_relasionship", "conv_strategy",
     "conv_operation", "conv_jointype", "conv_setsetopcommand",
     "conv_sortmethod", "conv_sortspacetype", "conv_partialmode"}

\* the converter_t named by a word_table entry, applied
Convert(converter, src, mode) ==
    CASE converter \in CoreConverters ->
             converter_core(ConverterTable(converter), src, mode)
      [] converter = "conv_expression" -> conv_expression(src, mode)
      [] OTHER -> src

(* ------------------------- pg_parse_json ------------------------------- *)
\* The parser of PostgreSQL (common/jsonapi.c) as run_pg_parse_json calls
\* it: a recursive descent with one token of lookahead that reports what it
\* reads as a sequence of events.  toks is the text without its white
\* space; a position past the end reads as the end token.  A result is
\* [ok, pos, ev]: ok says whether the parse went on without error, pos is
\* the position of the lookahead, ev the events so far.
Event(e, s, t) == [e |-> e, s |-> s, t |-> t]

Tokens(text) == SelectSeq(text, LAMBDA x : x.k # "ws")
Tok(toks, pos) == IF pos > Len(toks) THEN EndToken ELSE toks[pos]

\* json_lex: fails when the bytes that follow are no token
LexOk(toks, pos) == Tok(toks, pos).k \notin {"bad", "txt"}
IsScalar(tok) == tok.k \in {"str", "num", "lit"}

Fail(r) == [r EXCEPT !.ok = FALSE]
Emit(r, ev) == [r EXCEPT !.ev = Append(@, ev)]
\* json_lex from within the parser: advance the lookahead by one token
Advance(toks, r) ==
    IF ~r.ok THEN r
    ELSE IF LexOk(toks, r.pos + 1) THEN [r EXCEPT !.pos = @ + 1]
    ELSE Fail(r)
\* lex_expect
Expect(toks, r, k) ==
    IF ~r.ok THEN r
    ELSE IF Tok(toks, r.pos).k = k THEN Advance(toks, r)
    ELSE Fail(r)

RECURSIVE parse_value(_, _)
RECURSIVE parse_object(_, _)
RECURSIVE parse_object_fields(_, _)
RECURSIVE parse_array(_, _)
RECURSIVE parse_array_elements(_, _)

\* a callback that runs only when what came before went on without error
EmitIfOk(r, ev) == IF ~r.ok THEN r ELSE Emit(r, ev)

\* parse_scalar: the callback runs only after the next token was read
parse_scalar(toks, r) ==
    LET tok == Tok(toks, r.pos)
    IN  IF ~IsScalar(tok) THEN Fail(r)
        ELSE EmitIfOk(Advance(toks, r), Event("scalar", tok.v, tok.k))

parse_value(toks, r) ==
    IF ~r.ok THEN r
    ELSE CASE Tok(toks, r.pos).k = "{" -> parse_object(toks, r)
           [] Tok(toks, r.pos).k = "[" -> parse_array(toks, r)
           [] OTHER -> parse_scalar(toks, r)

\* parse_object_field from the value on; r is the result after the colon
parse_object_field_value(toks, r, fname) ==
    LET isnull == Tok(toks, r.pos) = Lit("null")
    IN  IF ~r.ok THEN r
        ELSE EmitIfOk(
                 parse_value(toks, Emit(r, Event("ofstart", fname, isnull))),
                 Event("ofend", fname, isnull))

\* parse_object_field
parse_object_field(toks, r) ==
    IF Tok(toks, r.pos).k # "str" THEN Fail(r)
    ELSE parse_object_field_value(toks,
                                  Expect(toks, Advance(toks, r), ":"),
                                  Tok(toks, r.pos).v)

\* "while (lex_peek(lex) == JSON_TOKEN_COMMA)" of parse_object
parse_object_fields(toks, r) ==
    IF ~r.ok \/ Tok(toks, r.pos).k # "," THEN r
    ELSE LET r1 == Advance(toks, r)
         IN  IF ~r1.ok THEN r1
             ELSE parse_object_fields(toks, parse_object_field(toks, r1))

\* parse_object between its braces; r is the result after the opening one
parse_object_body(toks, r) ==
    IF ~r.ok THEN r
    ELSE CASE Tok(toks, r.pos).k = "str" ->
                parse_object_fields(toks, parse_object_field(toks, r))
           [] Tok(toks, r.pos).k = "}" -> r
           [] OTHER -> Fail(r)

parse_object(toks, r) ==
    EmitIfOk(
        Expect(toks,
               parse_object_body(
                   toks, Advance(toks, Emit(r, Event("objstart", "", "")))),
               "}"),
        Event("objend", "", ""))

\* parse_array_element
parse_array_element(toks, r) ==
    LET isnull == Tok(toks, r.pos) = Lit("null")
    IN  EmitIfOk(parse_value(toks, Emit(r, Event("aestart", "", isnull))),
                 Event("aeend", "", isnull))

parse_array_elements(toks, r) ==
    IF ~r.ok \/ Tok(toks, r.pos).k # "," THEN r
    ELSE LET r1 == Advance(toks, r)
         IN  IF ~r1.ok THEN r1
             ELSE parse_array_elements(toks,
                                       parse_array_element(toks, r1))

\* parse_array between its brackets; r is the result after the opening one
parse_array_body(toks, r) ==
    IF ~r.ok \/ Tok(toks, r.pos).k = "]" THEN r
    ELSE parse_array_elements(toks, parse_array_element(toks, r))

parse_array(toks, r) ==
    EmitIfOk(
        Expect(toks,
               parse_array_body(
                   toks, Advance(toks, Emit(r, Event("arrstart", "", "")))),
               "]"),
        Event("arrend", "", ""))

\* what follows the one value: the end of the input
parse_end(toks, r) ==
    IF ~r.ok THEN r
    ELSE IF Tok(toks, r.pos).k = "end" THEN r
    ELSE Fail(r)

\* pg_parse_json on the tokens: the first token, one value, then the end
pg_parse_tokens(toks) ==
    parse_end(toks,
              parse_value(toks,
                          [ok |-> LexOk(toks, 1), pos |-> 1, ev |-> <<>>]))

pg_parse_json(text) == pg_parse_tokens(Tokens(text))

(* --------------------- the parser context and its callbacks ------------ *)
INDENT_STEP == 2

RECURSIVE Blanks(_)
Blanks(n) == IF n <= 0 THEN "" ELSE " " \o Blanks(n - 1)

\* appendStringInfoString / appendStringInfoChar: nothing for ""
Put(ctx, x) ==
    IF x.v = "" /\ x.k # "str" THEN ctx
    ELSE [ctx EXCEPT !.dest = Append(@, x)]
PutNewline(ctx) == Put(ctx, Ws("\n"))
\* appendStringInfoSpaces
PutSpaces(ctx, n) == Put(ctx, Ws(Blanks(n)))
RECURSIVE PutAll(_, _)
PutAll(ctx, xs) ==
    IF xs = <<>> THEN ctx ELSE PutAll(Put(ctx, Head(xs)), Tail(xs))

\* the setters the entries of a word table name
SettersOf(tbl) == {tbl[i].setter : i \in 1..Len(tbl)} \ {"NULL"}
\* the fields of node_vals, all NULL (clear_nodeval)
NodeValNames == SettersOf(propfields)
EmptyNodeVals ==
    [vals |-> [n \in NodeValNames |-> NullPtr],
     nodetag |-> "T_Invalid", undef |-> <<>>]

\* init_parser_context
init_parser_context(mode) ==
    [dest |-> <<>>, mode |-> mode, level |-> 0, first |-> {},
     plan_levels |-> {}, not_item |-> {}, remove |-> FALSE,
     last_elem_is_object |-> FALSE, section |-> "P_Invalid",
     current_list |-> "P_Invalid", list_fname |-> NullPtr,
     fname |-> NullPtr, wlist_level |-> 0, valconverter |-> "NULL",
     setter |-> "NULL", nodevals |-> EmptyNodeVals, crashed |-> FALSE]

IS_INDENTED_ARRAY(v) == v \in {"P_GroupKeys", "P_HashKeys"}

json_objstart(ctx) ==
    LET inflate == ctx.mode = PGSP_JSON_INFLATE
        c1 == IF inflate /\ ctx.fname = NullPtr /\ ctx.dest # <<>>
              THEN PutSpaces(PutNewline(ctx), ctx.level * INDENT_STEP)
              ELSE ctx
        c2 == IF inflate THEN [c1 EXCEPT !.fname = NullPtr] ELSE c1
        c3 == [Put(c2, P("{")) EXCEPT
                 !.level = @ + 1, !.first = @ \cup {ctx.level + 1}]
    IN  IF inflate THEN PutNewline(c3) ELSE c3

json_objend(ctx) ==
    LET c1 == IF ctx.mode = PGSP_JSON_INFLATE
              THEN PutSpaces(IF ctx.level \notin ctx.first
                             THEN PutNewline(ctx) ELSE ctx,
                             (ctx.level - 1) * INDENT_STEP)
              ELSE ctx
    IN  [Put(c1, P("}")) EXCEPT
           !.level = @ - 1, !.last_elem_is_object = TRUE,
           !.first = @ \ {ctx.level - 1}, !.fname = NullPtr]

json_arrstart(ctx) ==
    LET c1 == IF IS_INDENTED_ARRAY(ctx.current_list)
              THEN [ctx EXCEPT !.wlist_level = @ + 1] ELSE ctx
    IN  [Put(c1, P("[")) EXCEPT
           !.fname = NullPtr, !.level = @ + 1,
           !.last_elem_is_object = TRUE,
           !.first = @ \cup {ctx.level + 1}]

json_arrend(ctx) ==
    LET c1 == IF IS_INDENTED_ARRAY(ctx.current_list)
              THEN [ctx EXCEPT !.wlist_level = @ - 1] ELSE ctx
        c2 == IF /\ ctx.mode = PGSP_JSON_INFLATE
                 /\ IF IS_INDENTED_ARRAY(ctx.current_list)
                    THEN c1.wlist_level = 0
                    ELSE ctx.last_elem_is_object
              THEN PutSpaces(PutNewline(c1),
                             (ctx.level - 1) * INDENT_STEP)
              ELSE c1
    IN  [Put(c2, P("]")) EXCEPT !.level = @ - 1]

\* json_ofstart with p the entry search_word_table found in tbl, 0 for none
json_ofstart_found(tbl, p, ctx, fname) ==
    LET remove == /\ ctx.mode = PGSP_JSON_NORMALIZE
                  /\ (p = 0 \/ ~tbl[p].normalize_use)
        inflate == ctx.mode = PGSP_JSON_INFLATE
        c1 == IF ctx.level \notin ctx.first
              THEN LET c == Put(ctx, P(","))
                   IN  IF inflate THEN PutNewline(c) ELSE c
              ELSE [ctx EXCEPT !.first = @ \ {ctx.level}]
        c2 == IF inflate THEN PutSpaces(c1, ctx.level * INDENT_STEP)
              ELSE c1
        fn == IF p = 0 THEN fname
              ELSE IF inflate \/ tbl[p].shortname = ""
              THEN tbl[p].longname
              ELSE tbl[p].shortname
        c3 == [Put(Put(c2, Str(fn)), P(":")) EXCEPT
                 !.fname = fn,
                 !.valconverter =
                     IF p = 0 THEN "NULL" ELSE tbl[p].converter]
        c4 == IF inflate THEN Put(c3, Ws(" ")) ELSE c3
    IN  IF remove THEN [ctx EXCEPT !.remove = TRUE]
        ELSE IF p # 0 /\ IS_INDENTED_ARRAY(tbl[p].tag)
        THEN [c4 EXCEPT !.remove = FALSE,
                        !.current_list = tbl[p].tag,
                        !.list_fname = fname, !.wlist_level = 0]
        ELSE [c4 EXCEPT !.remove = FALSE]

json_ofstart(ctx, fname) ==
    json_ofstart_found(propfields,
                       search_word_table(propfields, fname, ctx.mode),
                       ctx, fname)

json_ofend(ctx, fname) ==
    IF ctx.list_fname # NullPtr /\ fname = ctx.list_fname
    THEN [ctx EXCEPT !.list_fname = NullPtr, !.current_list = "P_Invalid"]
    ELSE ctx

json_aestart(ctx) ==
    LET inflate == ctx.mode = PGSP_JSON_INFLATE
        c1 == IF ctx.level \notin ctx.first THEN Put(ctx, P(","))
              ELSE ctx
        c2 == IF IS_INDENTED_ARRAY(ctx.current_list) /\ ctx.wlist_level = 1
              THEN IF inflate
                   THEN PutSpaces(PutNewline(c1), ctx.level * INDENT_STEP)
                   ELSE c1
              ELSE IF /\ ctx.level \notin ctx.first
                      /\ inflate /\ ~ctx.last_elem_is_object
                   THEN Put(c1, Ws(" "))
                   ELSE c1
    IN  IF ctx.remove THEN ctx
        ELSE [c2 EXCEPT !.first = @ \ {ctx.level}]

\* json_scalar without "if (ctx->remove) return"
json_scalar_keep(ctx, token, tokentype) ==
    [Put(ctx, [k |-> tokentype,
               v |-> IF ctx.valconverter # "NULL"
                     THEN Convert(ctx.valconverter, token, ctx.mode)
                     ELSE token]) EXCEPT
       !.last_elem_is_object = FALSE]

json_scalar(ctx, token, tokentype) ==
    IF ctx.remove THEN ctx
    ELSE [Put(ctx, [k |-> tokentype,
                    v |-> IF ctx.valconverter # "NULL"
                          THEN Convert(ctx.valconverter, token, ctx.mode)
                          ELSE token]) EXCEPT
            !.last_elem_is_object = FALSE]

\* init_json_semaction: the callback of each event
JsonSemAction(ctx, ev) ==
    CASE ev.e = "objstart" -> json_objstart(ctx)
      [] ev.e = "objend" -> json_objend(ctx)
      [] ev.e = "arrstart" -> json_arrstart(ctx)
      [] ev.e = "arrend" -> json_arrend(ctx)
      [] ev.e = "ofstart" -> json_ofstart(ctx, ev.s)
      [] ev.e = "ofend" -> json_ofend(ctx, ev.s)
      [] ev.e = "aestart" -> json_aestart(ctx)
      [] ev.e = "scalar" -> json_scalar(ctx, ev.s, ev.t)
      [] OTHER -> ctx

(* YAML *)
yaml_objstart(ctx) ==
    LET c1 == IF ctx.fname = NullPtr THEN ctx
              ELSE LET a == IF ctx.dest # <<>> THEN PutNewline(ctx) ELSE ctx
                       b == PutSpaces(a, (ctx.level - 1) * INDENT_STEP)
                       c == PutAll(b, <<Txt("- "), Txt(ctx.fname),
                                        Txt(":"), Ws("\n")>>)
                       d == PutSpaces(c, (ctx.level + 1) * INDENT_STEP)
                   IN  [d EXCEPT !.fname = NullPtr]
    IN  [c1 EXCEPT !.level = @ + 1, !.first = @ \cup {ctx.level + 1}]

yaml_objend(ctx) ==
    [ctx EXCEPT !.level = @ - 1, !.last_elem_is_object = TRUE,
                !.first = @ \ {ctx.level - 1}]

yaml_arrstart(ctx) ==
    LET c1 == IF ctx.fname = NullPtr THEN ctx
              ELSE PutAll(ctx, <<Txt(ctx.fname), Txt(":")>>)
    IN  [c1 EXCEPT !.fname = NullPtr, !.level = @ + 1,
                   !.first = @ \cup {ctx.level + 1}]

yaml_arrend(ctx) == [ctx EXCEPT !.level = @ - 1]

\* yaml_ofstart with p the entry search_word_table found in tbl, 0 for none
yaml_ofstart_found(tbl, p, ctx, fname) ==
    LET s == IF p = 0 THEN fname ELSE tbl[p].longname
        c1 == IF ctx.level \notin ctx.first
              THEN PutSpaces(PutNewline(ctx), ctx.level * INDENT_STEP)
              ELSE [ctx EXCEPT !.first = @ \ {ctx.level}]
    IN  [c1 EXCEPT !.fname = s,
                   !.valconverter =
                       IF p = 0 THEN "NULL" ELSE tbl[p].converter]

yaml_ofstart(ctx, fname) ==
    yaml_ofstart_found(propfields,
                       search_word_table(propfields, fname, ctx.mode),
                       ctx, fname)

\* "bms_del_member(ctx->first, ctx->level)" drops its result: first stays
yaml_aestart(ctx) ==
    Put(PutSpaces(PutNewline(ctx), ctx.level * INDENT_STEP), Txt("- "))

yaml_scalar(ctx, token, tokentype) ==
    LET c1 == IF ctx.fname = NullPtr THEN ctx
              ELSE [PutAll(ctx, <<Txt(ctx.fname), Txt(": ")>>)
                      EXCEPT !.fname = NullPtr]
    IN  [json_scalar(c1, token, tokentype) EXCEPT
           !.last_elem_is_object = FALSE]

YamlSemAction(ctx, ev) ==
    CASE ev.e = "objstart" -> yaml_objstart(ctx)
      [] ev.e = "objend" -> yaml_objend(ctx)
      [] ev.e = "arrstart" -> yaml_arrstart(ctx)
      [] ev.e = "arrend" -> yaml_arrend(ctx)
      [] ev.e = "ofstart" -> yaml_ofstart(ctx, ev.s)
      [] ev.e = "aestart" -> yaml_aestart(ctx)
      [] ev.e = "scalar" -> yaml_scalar(ctx, ev.s, ev.t)
      [] OTHER -> ctx

(* XML *)
\* hyphenate_words: every blank becomes a hyphen
hyphenate_words(src) ==
    LET hits == {i \in 1..Len(HyphenatedNames) :
                    HyphenatedNames[i][1] = src}
    IN  IF hits = {} THEN src
        ELSE HyphenatedNames[CHOOSE i \in hits : TRUE][2]

\* escape_xml on the names and values of the documents, none of which
\* holds one of & < > " beside other characters
escape_xml(s) ==
    CASE s = "&" -> "&amp;"
      [] s = "<" -> "&lt;"
      [] s = ">" -> "&gt;"
      [] OTHER -> s

xml_objstart(ctx) ==
    [ctx EXCEPT !.level = @ + 1, !.first = @ \cup {ctx.level + 1}]

xml_objend(ctx) ==
    [PutSpaces(PutNewline(ctx), ctx.level * INDENT_STEP) EXCEPT
       !.level = @ - 1, !.first = @ \ {ctx.level - 1},
       !.last_elem_is_object = TRUE]

xml_arrend(ctx) ==
    PutSpaces(PutNewline(ctx), (ctx.level + 1) * INDENT_STEP)

\* xml_ofstart with p the entry search_word_table found in tbl, 0 for none
xml_ofstart_found(tbl, p, ctx, fname) ==
    LET s == IF p = 0 THEN fname ELSE tbl[p].longname
        tag == IF p = 0 THEN "P_Invalid" ELSE tbl[p].tag
        c1 == IF tag \in {"P_Plan", "P_Triggers"}
              THEN [ctx EXCEPT !.section = tag] ELSE ctx
        c2 == PutSpaces(PutNewline(c1), (ctx.level + 1) * INDENT_STEP)
        c3 == PutAll(c2, <<Txt("<"), Txt(escape_xml(hyphenate_words(s))),
                           Txt(">")>>)
    IN  [c3 EXCEPT
           !.valconverter =
               IF p = 0 THEN "NULL" ELSE tbl[p].converter,
           !.not_item = IF tag \in {"P_Plans", "P_Triggers"}
                        THEN @ \cup {ctx.level + 1}
                        ELSE @ \ {ctx.level + 1}]

xml_ofstart(ctx, fname) ==
    xml_ofstart_found(propfields,
                      search_word_table(propfields, fname, ctx.mode),
                      ctx, fname)

\* xml_ofend with p the entry search_word_table found in tbl, 0 for none
xml_ofend_found(tbl, p, ctx, fname) ==
    LET s == IF p = 0 THEN fname ELSE tbl[p].longname
    IN  PutAll(ctx, <<Txt("</"), Txt(escape_xml(hyphenate_words(s))),
                      Txt(">")>>)

xml_ofend(ctx, fname) ==
    xml_ofend_found(propfields,
                    search_word_table(propfields, fname, ctx.mode),
                    ctx, fname)

xml_aestart(ctx) ==
    LET level == ctx.level + 1
        tag == IF level \in ctx.not_item
               THEN IF ctx.section = "P_Plan" THEN "<Plan>"
                    ELSE "<Trigger>"
               ELSE "<Item>"
        c1 == PutSpaces(PutNewline(ctx), (level + 1) * INDENT_STEP)
    IN  [Put(c1, Txt(tag)) EXCEPT !.level = level]

xml_aeend(ctx) ==
    LET tag == IF ctx.level \in ctx.not_item
               THEN IF ctx.section = "P_Plan" THEN "</Plan>"
                    ELSE "</Trigger>"
               ELSE "</Item>"
    IN  [Put(ctx, Txt(tag)) EXCEPT !.level = @ - 1]

\* a string value is escaped, a number or a literal is not
xml_value(s, tokentype) == IF tokentype = "str" THEN escape_xml(s) ELSE s

xml_scalar(ctx, token, tokentype) ==
    [Put(ctx,
         Txt(xml_value(IF ctx.valconverter # "NULL"
                       THEN Convert(ctx.valconverter, token,
                                    PGSP_JSON_XMLIZE)
                       ELSE token,
                       tokentype))) EXCEPT
       !.last_elem_is_object = FALSE]

XmlSemAction(ctx, ev) ==
    CASE ev.e = "objstart" -> xml_objstart(ctx)
      [] ev.e = "objend" -> xml_objend(ctx)
      [] ev.e = "arrend" -> xml_arrend(ctx)
      [] ev.e = "ofstart" -> xml_ofstart(ctx, ev.s)
      [] ev.e = "ofend" -> xml_ofend(ctx, ev.s)
      [] ev.e = "aestart" -> xml_aestart(ctx)
      [] ev.e = "aeend" -> xml_aeend(ctx)
      [] ev.e = "scalar" -> xml_scalar(ctx, ev.s, ev.t)
      [] OTHER -> ctx

(* text (pgsp_json_text.c) *)
ISZERO(s) == s = NullPtr \/ s = "0" \/ s = "0.000"
HASSTRING(s) == s # NullPtr /\ s # ""
TEXT_LEVEL_STEP == 6
TEXT_INDENT_OFFSET == 2
TEXT_INDENT_BASE(l, e) ==
    (IF l < 2 THEN 0 ELSE TEXT_LEVEL_STEP * (l - 2) + TEXT_INDENT_OFFSET) + e
TEXT_INDENT_DETAILS(l, e) ==
    TEXT_INDENT_BASE(l, e) + (IF l < 2 THEN 2 ELSE 6)

\* TLC evaluates a definition of a LET when it is first used; Stepwise is
\* TRUE and has the contexts of a chain evaluated in their order, so that
\* the evaluation of the last does not nest those of all the others.
Stepwise(cs) == \A i \in 1..Len(cs) : cs[i].crashed \in BOOLEAN

\* appendStringInfoString of a char pointer: strlen of a NULL pointer is
\* undefined, recorded in crashed
PutStr(ctx, s) ==
    IF s = NullPtr THEN [ctx EXCEPT !.crashed = TRUE] ELSE Put(ctx, Txt(s))

\* quote_identifier on the identifiers of the documents
quote_identifier(val) ==
    IF val \in {"t1", "t2"} THEN val ELSE "\"" \o val \o "\""

SqlQuoteSetters ==
    {"obj_name", "alias", "schema_name", "index_name", "trig_name",
     "trig_relation"}
ListSetters ==
    {"output", "sort_key", "group_key", "hash_key",
     "conflict_arbiter_indexes", "sampling_params", "presorted_key",
     "sortmethod_used"}
BoolSetters == {"parallel_aware", "inner_unique", "async_capable"}
ConversionSetters ==
    [scan_dir |-> "conv_scandir", join_type |-> "conv_jointype",
     setopcommand |-> "conv_setsetopcommand",
     sort_method |-> "conv_sortmethod",
     partial_mode |-> "conv_partialmode",
     sort_space_type |-> "conv_sortspacetype",
     operation |-> "conv_operation"]

\* SETTER(node_type)
\* SETTER(node_type) with p the entry search_word_table found in tbl, 0 for none
pgsp_node_set_node_type_found(tbl, p, nv, val) ==
    IF p = 0
    THEN [nv EXCEPT !.vals.node_type = val, !.nodetag = "T_Invalid"]
    ELSE [nv EXCEPT
            !.vals.node_type =
                IF tbl[p].textname # NullPtr
                THEN tbl[p].textname ELSE tbl[p].longname,
            !.nodetag = tbl[p].tag]

pgsp_node_set_node_type(nv, val) ==
    pgsp_node_set_node_type_found(
        nodetypes, search_word_table(nodetypes, val, PGSP_JSON_TEXTIZE),
        nv, val)

\* SETTER(strategy)
pgsp_node_set_strategy(nv, val) ==
    LET p == search_word_table(strategies, val, PGSP_JSON_TEXTIZE)
        tag == IF p = 0 THEN "S_Invalid" ELSE strategies[p].tag
    IN  CASE nv.nodetag = "T_Agg" /\ tag = "S_Hashed" ->
                 [nv EXCEPT !.vals.node_type = "HashAggregate"]
          [] nv.nodetag = "T_Agg" /\ tag = "S_Sorted" ->
                 [nv EXCEPT !.vals.node_type = "GroupAggregate"]
          [] nv.nodetag = "T_Agg" /\ tag = "S_Mixed" ->
                 [nv EXCEPT !.vals.node_type = "MixedAggregate"]
          [] nv.nodetag = "T_SetOp" /\ tag = "S_Hashed" ->
                 [nv EXCEPT !.vals.node_type = "HashSetOp"]
          [] OTHER -> nv

\* the setter of a word_table entry applied to a value: DEFAULT_SETTER,
\* SQLQUOTE_SETTER, BOOL_SETTER, LIST_SETTER, CONVERSION_SETTER
Setter(nv, setter, val) ==
    CASE setter = "node_type" -> pgsp_node_set_node_type(nv, val)
      [] setter = "strategy" -> pgsp_node_set_strategy(nv, val)
      [] setter \in SqlQuoteSetters ->
             [nv EXCEPT !.vals[setter] = quote_identifier(val)]
      [] setter \in BoolSetters ->
             [nv EXCEPT !.vals[setter] =
                            IF val = "true" THEN "1" ELSE NullPtr]
      [] setter \in ListSetters ->
             [nv EXCEPT !.vals[setter] =
                            IF @ = NullPtr \/ @ = "" THEN val
                            ELSE @ \o ", " \o val]
      [] setter \in DOMAIN ConversionSetters ->
             [nv EXCEPT !.vals[setter] =
                            Convert(ConversionSetters[setter], val,
                                    PGSP_JSON_TEXTIZE)]
      [] OTHER -> [nv EXCEPT !.vals[setter] = val]

\* SETTER(_undef) with _undef_newelem set, then clear
UndefNew(nv, val) == [nv EXCEPT !.undef = Append(@, val)]
\* SETTER(_undef) with _undef_newelem clear: llast of an empty list is a
\* NULL pointer
UndefAppend(ctx, val) ==
    IF ctx.nodevals.undef = <<>> THEN [ctx EXCEPT !.crashed = TRUE]
    ELSE [ctx EXCEPT
            !.nodevals.undef[Len(ctx.nodevals.undef)] = @ \o val]

print_obj_name(ctx) ==
    LET v == ctx.nodevals.vals
        c1 == IF HASSTRING(v.obj_name)
              THEN LET a == Put(ctx, Txt(" on "))
                       b == IF HASSTRING(v.schema_name)
                            THEN Put(PutStr(a, v.schema_name), Txt("."))
                            ELSE a
                   IN  PutStr(b, v.obj_name)
              ELSE ctx
    IN  IF HASSTRING(v.alias)
           /\ (~HASSTRING(v.obj_name) \/ v.obj_name # v.alias)
        THEN PutStr(Put(c1, Txt(IF HASSTRING(v.obj_name) THEN " "
                                ELSE " on ")),
                    v.alias)
        ELSE c1

print_prop(ctx, prepstr, prop, level, exind) ==
    LET c1 == IF level > 0
              THEN PutSpaces(PutNewline(ctx),
                             TEXT_INDENT_DETAILS(level, exind))
              ELSE ctx
    IN  PutStr(Put(c1, Txt(prepstr)), prop)

print_prop_if_exists(ctx, prepstr, prop, level, exind) ==
    IF HASSTRING(prop) THEN print_prop(ctx, prepstr, prop, level, exind)
    ELSE ctx

\* print_propstr_if_exists: the line is fed whatever the level
print_propstr_if_exists(ctx, prepstr, prop, level, exind) ==
    IF HASSTRING(prop)
    THEN PutStr(Put(PutSpaces(PutNewline(ctx),
                              TEXT_INDENT_DETAILS(level, exind)),
                    Txt(prepstr)),
                prop)
    ELSE ctx

print_prop_if_nz(ctx, prepstr, prop, level, exind) ==
    IF ~ISZERO(prop) THEN print_prop(ctx, prepstr, prop, level, exind)
    ELSE ctx

\* one line of a block of properties; pr is <<kind, prepstr, field>>
PrintProp(ctx, pr, level, exind) ==
    CASE pr[1] = "str" ->
             print_propstr_if_exists(ctx, pr[2], ctx.nodevals.vals[pr[3]],
                                     level, exind)
      [] pr[1] = "nz" ->
             print_prop_if_nz(ctx, pr[2], ctx.nodevals.vals[pr[3]],
                              level, exind)
      [] OTHER ->
             print_prop_if_exists(ctx, pr[2], ctx.nodevals.vals[pr[3]],
                                  level, exind)

RECURSIVE PrintProps(_, _, _, _)
PrintProps(ctx, props, level, exind) ==
    IF props = <<>> \/ ~Stepwise(<<ctx>>) THEN ctx
    ELSE PrintProps(PrintProp(ctx, Head(props), level, exind),
                    Tail(props), level, exind)

RECURSIVE PrintUndef(_, _, _, _)
PrintUndef(ctx, undef, level, exind) ==
    IF undef = <<>> THEN ctx
    ELSE PrintUndef(
             Put(PutSpaces(PutNewline(ctx),
                           TEXT_INDENT_DETAILS(level, exind)),
                 Txt(Head(undef))),
             Tail(undef), level, exind)

\* the first line of print_current_node: the name of the node
NodeHeader(ctx) ==
    LET v == ctx.nodevals.vals
        tag == ctx.nodevals.nodetag
    IN  CASE tag \in {"T_ModifyTable", "T_SeqScan", "T_BitmapHeapScan",
                      "T_TidScan", "T_SubqueryScan", "T_FunctionScan",
                      "T_ValuesScan", "T_CteScan", "T_WorkTableScan",
                      "T_ForeignScan"} ->
                 print_obj_name(
                     PutStr(ctx, IF tag = "T_ModifyTable" THEN v.operation
                                 ELSE v.node_type))
          [] tag \in {"T_IndexScan", "T_IndexOnlyScan",
                      "T_BitmapIndexScan"} ->
                 print_obj_name(
                     print_prop_if_exists(
                         print_prop_if_exists(PutStr(ctx, v.node_type),
                                              " ", v.scan_dir, 0, 0),
                         " using ", v.index_name, 0, 0))
          [] tag \in {"T_NestLoop", "T_MergeJoin", "T_HashJoin"} ->
                 LET c1 == PutStr(ctx, v.node_type)
                     c2 == IF v.join_type # NullPtr /\ v.join_type # "Inner"
                           THEN PutStr(Put(c1, Txt(" ")), v.join_type)
                           ELSE c1
                 IN  IF tag # "T_NestLoop" THEN Put(c2, Txt(" Join"))
                     ELSE c2
          [] tag = "T_SetOp" ->
                 print_prop_if_exists(PutStr(ctx, v.node_type), " ",
                                      v.setopcommand, 0, 0)
          [] OTHER ->
                 IF HASSTRING(v.worker_number)
                 THEN print_prop_if_exists(Put(ctx, Txt("Worker")), " ",
                                           v.worker_number, 0, 0)
                 ELSE PutStr(ctx, v.node_type)

\* print_current_node, block by block; c is the context the block before
\* left, v the values of the node.
\* the indentation of the first line
NodeIndent(ctx, level) ==
    PutSpaces(IF ctx.dest # <<>> THEN PutNewline(ctx) ELSE ctx,
              TEXT_INDENT_BASE(level, 0))

NodeSubplan(c, v, level) ==
    IF HASSTRING(v.subplan_name)
    THEN PutSpaces(PutNewline(PutStr(c, v.subplan_name)),
                   TEXT_INDENT_BASE(level, 2))
    ELSE c

NodeArrow(c, current_list, level) ==
    IF level > 1 /\ current_list = "P_Invalid" THEN Put(c, Txt("->  "))
    ELSE c

\* "Parallel " and "Async "
NodeFlag(c, flag, word) == IF flag # NullPtr THEN Put(c, Txt(word)) ELSE c

NodeCost(c, v) ==
    IF /\ ~ISZERO(v.startup_cost) /\ ~ISZERO(v.total_cost)
       /\ HASSTRING(v.plan_rows) /\ HASSTRING(v.plan_width)
    THEN PutAll(c, <<Txt("  (cost="), Txt(v.startup_cost),
                     Txt(".."), Txt(v.total_cost),
                     Txt(" rows="), Txt(v.plan_rows),
                     Txt(" width="), Txt(v.plan_width),
                     Txt(")")>>)
    ELSE c

NodeActual(c, v) ==
    IF HASSTRING(v.actual_loops) /\ ISZERO(v.actual_loops)
    THEN Put(c, Txt(" (never executed)"))
    ELSE IF /\ HASSTRING(v.actual_rows)
            /\ HASSTRING(v.actual_loops)
            /\ HASSTRING(v.actual_startup_time)
            /\ HASSTRING(v.actual_total_time)
    THEN PutAll(c, <<Txt(" (actual "), Txt("time="),
                     Txt(v.actual_startup_time), Txt(".."),
                     Txt(v.actual_total_time), Txt(" "),
                     Txt("rows="), Txt(v.actual_rows),
                     Txt(" loops="), Txt(v.actual_loops),
                     Txt(")")>>)
    ELSE c

NodeConds(c, level, exind) ==
    PrintProps(c,
        << <<"str", "Output: ", "output">>,
           <<"str", "Group Key: ", "group_key">>,
           <<"", "Merge Cond: ", "merge_cond">>,
           <<"", "Hash Cond: ", "hash_cond">>,
           <<"", "Tid Cond: ", "tid_cond">>,
           <<"", "Join Filter: ", "join_filter">>,
           <<"", "Index Cond: ", "index_cond">>,
           <<"", "Recheck Cond: ", "recheck_cond">>,
           <<"", "Workers Planned: ", "workers_planned">>,
           <<"", "Workers Launched: ", "workers_launched">>,
           <<"str", "Sort Key: ", "sort_key">>,
           <<"", "Function Call: ", "func_call">> >>,
        level, exind)

NodeUndef(c, undef, level, exind) ==
    [PrintUndef(c, undef, level, exind) EXCEPT !.nodevals.undef = <<>>]

NodeFilters(c, level, exind) ==
    PrintProps(c,
        << <<"", "Filter: ", "filter">>,
           <<"nz", "Rows Removed by Filter: ", "filter_removed">>,
           <<"nz", "Rows Removed by Index Recheck: ", "idxrchk_removed">>,
           <<"nz", "Rows Removed by Join Filter: ", "joinfilt_removed">>,
           <<"", "Heap Fetches: ", "heap_fetches">>,
           <<"", "Conflict Resolution: ", "conflict_resolution">>,
           <<"str", "Conflict Arbiter Indexes: ",
             "conflict_arbiter_indexes">>,
           <<"", "Tuples Inserted: ", "tuples_inserted">>,
           <<"", "Conflicting Tuples: ", "conflicting_tuples">> >>,
        level, exind)

\* the extra indentation of the lines under the first
NodeExind(nv) ==
    IF /\ nv.nodetag \notin
              {"T_ModifyTable", "T_SeqScan", "T_BitmapHeapScan",
               "T_TidScan", "T_SubqueryScan", "T_FunctionScan",
               "T_ValuesScan", "T_CteScan", "T_WorkTableScan",
               "T_ForeignScan", "T_IndexScan", "T_IndexOnlyScan",
               "T_BitmapIndexScan", "T_NestLoop", "T_MergeJoin",
               "T_HashJoin", "T_SetOp"}
       /\ HASSTRING(nv.vals.worker_number)
    THEN -4
    ELSE IF HASSTRING(nv.vals.subplan_name) THEN 2 ELSE 0

\* the first line of the node
NodeLine(ctx, v, level) ==
    NodeHeader(
        NodeFlag(
            NodeFlag(
                NodeArrow(NodeSubplan(NodeIndent(ctx, level), v, level),
                          ctx.current_list, level),
                v.parallel_aware, "Parallel "),
            v.async_capable, "Async "))

\* the lines under the first
NodeDetails(c, v, undef, level, exind) ==
    NodeFilters(
        NodeUndef(NodeConds(NodeActual(NodeCost(c, v), v), level, exind),
                  undef, level, exind),
        level, exind)

NodeLines(c, ctx) ==
    IF ctx.current_list = "P_TargetTables" THEN c
    ELSE NodeDetails(c, ctx.nodevals.vals, ctx.nodevals.undef,
                     ctx.level - 1, NodeExind(ctx.nodevals))

\* print_current_node.  The blocks for Sampling, Sort Method, Heap Blocks,
\* Buckets, Buffers and I/O Timings, the target tables and the grouping
\* sets print properties that no document of the model holds.
print_current_node(ctx) ==
    IF /\ ctx.nodevals.vals.node_type = NullPtr
       /\ ~HASSTRING(ctx.nodevals.vals.worker_number)
    THEN ctx
    ELSE NodeLines(NodeLine(ctx, ctx.nodevals.vals, ctx.level - 1), ctx)

print_current_trig_node(ctx) ==
    LET v == ctx.nodevals.vals
    IN  IF HASSTRING(v.trig_name) /\ ~ISZERO(v.trig_time)
        THEN PutStr(
                 PutAll(IF ctx.dest # <<>> THEN PutNewline(ctx) ELSE ctx,
                        <<Txt("Trigger "), Txt(v.trig_name),
                          Txt(": time="), Txt(v.trig_time),
                          Txt(" calls=")>>),
                 v.trig_calls)
        ELSE ctx

clear_nodeval(ctx) == [ctx EXCEPT !.nodevals = EmptyNodeVals]

\* the grouping-set branch allocates working strings only
json_text_objstart(ctx) == [ctx EXCEPT !.level = @ + 1]

\* the target-table and grouping-set branches are left out: no document of
\* the model holds "Target Tables" or "Grouping Sets"
\* the end of json_text_objend
json_text_leave(c) ==
    [c EXCEPT !.last_elem_is_object = TRUE, !.level = @ - 1]

json_text_objend(ctx) ==
    json_text_leave(IF (ctx.level - 1) \in ctx.plan_levels
                    THEN clear_nodeval(print_current_node(ctx))
                    ELSE IF ctx.section = "P_Triggers"
                    THEN clear_nodeval(print_current_trig_node(ctx))
                    ELSE ctx)

json_text_arrstart(ctx) ==
    IF ctx.current_list = "P_GroupSets"
    THEN [ctx EXCEPT !.wlist_level = @ + 1] ELSE ctx

json_text_arrend(ctx) ==
    IF ctx.current_list = "P_GroupSets"
    THEN [ctx EXCEPT !.wlist_level = @ - 1] ELSE ctx

\* the list a field opens: "Target Tables", "Grouping Sets" or "Workers"
json_text_list(c, tag, fname) ==
    IF tag \in {"P_TargetTables", "P_GroupSets", "P_Workers"}
    THEN [c EXCEPT
            !.current_list = tag, !.list_fname = fname,
            !.wlist_level = IF tag = "P_TargetTables" THEN @ ELSE 0]
    ELSE c

\* json_text_ofstart with p the entry search_word_table found in tbl, 0 for none
json_text_ofstart_found(tbl, p, ctx, fname) ==
    LET tag == tbl[p].tag
        plan == tag \in {"P_Plan", "P_Plans", "P_Workers"}
    IN  IF p = 0
        THEN [ctx EXCEPT
                !.setter = "_undef",
                !.nodevals = UndefNew(@, fname \o ": ")]
        ELSE [json_text_list(
                  IF plan THEN clear_nodeval(print_current_node(ctx))
                  ELSE ctx,
                  tag, fname) EXCEPT
                !.plan_levels = IF plan THEN @ \cup {ctx.level}
                                ELSE @ \ {ctx.level},
                !.section = IF tag \in {"P_Plan", "P_Triggers"} THEN tag
                            ELSE @,
                !.setter = tbl[p].setter]

json_text_ofstart(ctx, fname) ==
    json_text_ofstart_found(
        propfields, search_word_table(propfields, fname, PGSP_JSON_TEXTIZE),
        ctx, fname)

json_text_ofend(ctx, fname) ==
    LET v == ctx.nodevals.vals
        c1 == IF ctx.list_fname # NullPtr /\ fname = ctx.list_fname
              THEN [ctx EXCEPT !.list_fname = NullPtr,
                               !.current_list = "P_Invalid"]
              ELSE ctx
    IN  IF HASSTRING(v.plan_time)
        THEN clear_nodeval(
                 PutAll(PutNewline(c1),
                        <<Txt("Planning Time: "), Txt(v.plan_time),
                          Txt(" ms")>>))
        ELSE IF HASSTRING(v.exec_time)
        THEN clear_nodeval(
                 PutAll(PutNewline(c1),
                        <<Txt("Execution Time: "), Txt(v.exec_time),
                          Txt(" ms")>>))
        ELSE c1

json_text_scalar(ctx, token) ==
    CASE ctx.setter = "NULL" -> ctx
      [] ctx.setter = "_undef" -> UndefAppend(ctx, token)
      [] OTHER ->
             [ctx EXCEPT !.nodevals = Setter(@, ctx.setter, token)]

TextSemAction(ctx, ev) ==
    CASE ev.e = "objstart" -> json_text_objstart(ctx)
      [] ev.e = "objend" -> json_text_objend(ctx)
      [] ev.e = "arrstart" -> json_text_arrstart(ctx)
      [] ev.e = "arrend" -> json_text_arrend(ctx)
      [] ev.e = "ofstart" -> json_text_ofstart(ctx, ev.s)
      [] ev.e = "ofend" -> json_text_ofend(ctx, ev.s)
      [] ev.e = "scalar" -> json_text_scalar(ctx, ev.s)
      [] OTHER -> ctx

(* --------------------- the transcoders --------------------------------- *)
\* the callbacks a JsonSemAction holds, called through its pointers; sem
\* names the set of callbacks the transcoder filled in
SemCallback(sem, ctx, ev) ==
    CASE sem = "json" -> JsonSemAction(ctx, ev)
      [] sem = "yaml" -> YamlSemAction(ctx, ev)
      [] sem = "xml" -> XmlSemAction(ctx, ev)
      [] sem = "text" -> TextSemAction(ctx, ev)

\* pg_parse_json driving the callbacks of a JsonSemAction: the events ev of
\* the parse, each handed to its callback in order.  The events lo..hi are
\* run as those of the first half, then those of the second.
RECURSIVE RunCallbacks(_, _, _, _, _)
RunCallbacks(sem, ctx, ev, lo, hi) ==
    IF lo > hi \/ ~Stepwise(<<ctx>>) THEN ctx
    ELSE IF lo = hi THEN SemCallback(sem, ctx, ev[lo])
    ELSE RunCallbacks(sem,
                      RunCallbacks(sem, ctx, ev, lo, (lo + hi) \div 2),
                      ev, (lo + hi) \div 2 + 1, hi)

\* run_pg_parse_json: the context after the parse and whether it completed
Parsed(sem, ctx, r) ==
    [ok |-> r.ok, ctx |-> RunCallbacks(sem, ctx, r.ev, 1, Len(r.ev))]
run_pg_parse_json(sem, ctx, json) == Parsed(sem, ctx, pg_parse_json(json))

NotJsonMarker == Txt("<Input was not JSON>")
TruncatedMarker == Txt("<truncated>")
EndsInNewline(dest) ==
    dest # <<>> /\ dest[Len(dest)] = Ws("\n")

\* a failure branch that does not look at what had been written
mark_failure_always_truncated(ctx) ==
    LET c1 == IF ~EndsInNewline(ctx.dest) THEN PutNewline(ctx) ELSE ctx
    IN  Put(c1, TruncatedMarker)

\* the failure branch shared by pgsp_json_inflate, pgsp_json_yamlize and
\* pgsp_json_textize
mark_failure(ctx) ==
    LET c1 == IF ctx.dest # <<>> /\ ~EndsInNewline(ctx.dest)
              THEN PutNewline(ctx) ELSE ctx
    IN  IF c1.dest = <<>> THEN Put(c1, NotJsonMarker)
        ELSE Put(c1, TruncatedMarker)

\* A transcoder returns [text, crashed, ok, emitted]: the string it returns,
\* whether it went through an operation whose behaviour is undefined,
\* whether the parse completed, and whether anything of the plan had been
\* written to dest when the parse ended.
Result(ctx, ok, emitted) ==
    [text |-> ctx.dest, crashed |-> ctx.crashed, ok |-> ok,
     emitted |-> emitted]

\* the return of pgsp_json_shorten and pgsp_json_normalize, which do not
\* look at what the parse returned
Unmarked(r) == Result(r.ctx, r.ok, r.ctx.dest # <<>>)
\* the return of pgsp_json_inflate and pgsp_json_yamlize
Marked(r) ==
    Result(IF ~r.ok THEN mark_failure(r.ctx) ELSE r.ctx,
           r.ok, r.ctx.dest # <<>>)

pgsp_json_shorten(json) ==
    Unmarked(run_pg_parse_json("json",
                               init_parser_context(PGSP_JSON_SHORTEN), json))

pgsp_json_normalize(json) ==
    Unmarked(run_pg_parse_json("json",
                               init_parser_context(PGSP_JSON_NORMALIZE), json))

pgsp_json_inflate(json) ==
    Marked(run_pg_parse_json("json",
                             init_parser_context(PGSP_JSON_INFLATE), json))

pgsp_json_yamlize(json) ==
    Marked(run_pg_parse_json("yaml",
                             init_parser_context(PGSP_JSON_YAMLIZE), json))

XmlHeader ==
    <<Txt("<explain xmlns=\"http://www.postgresql.org/2009/explain\">"),
      Ws("\n"), Txt("  <Query>")>>
XmlTrailer == <<Txt("</Query>"), Ws("\n"), Txt("</explain>"), Ws("\n")>>

\* the return of pgsp_json_xmlize; start_len is the length of the header
XmlCloseFailed(c1, start_len) ==
    IF Len(c1.dest) = start_len THEN [c1 EXCEPT !.dest = <<NotJsonMarker>>]
    ELSE Put(c1, TruncatedMarker)
XmlClose(r, start_len) ==
    Result(IF r.ok THEN PutAll(r.ctx, XmlTrailer)
           ELSE XmlCloseFailed(
                    IF Len(r.ctx.dest) > start_len
                       /\ ~EndsInNewline(r.ctx.dest)
                    THEN PutNewline(r.ctx) ELSE r.ctx,
                    start_len),
           r.ok, Len(r.ctx.dest) > start_len)
XmlOpen(c0, json) ==
    XmlClose(run_pg_parse_json("xml", c0, json), Len(c0.dest))

pgsp_json_xmlize(json) ==
    XmlOpen(PutAll(init_parser_context(PGSP_JSON_XMLIZE), XmlHeader), json)

\* the return of pgsp_json_textize after a failed parse; c1 is the context
\* with the node in progress printed
TextFailed(c1) == Result(mark_failure(c1), FALSE, c1.dest # <<>>)
TextClose(r) ==
    IF r.ok THEN Result(r.ctx, TRUE, r.ctx.dest # <<>>)
    ELSE TextFailed(IF r.ctx.nodevals.vals.node_type # NullPtr
                    THEN print_current_node(r.ctx) ELSE r.ctx)

pgsp_json_textize(json) ==
    TextClose(run_pg_parse_json("text",
                                init_parser_context(PGSP_JSON_TEXTIZE), json))

(* --------------------- plan documents ---------------------------------- *)
Fld(name, val) == <<Str(name), P(":")>> \o val
RECURSIVE Sep(_)
Sep(parts) ==
    IF parts = <<>> THEN <<>>
    ELSE IF Len(parts) = 1 THEN parts[1]
    ELSE parts[1] \o <<P(",")>> \o Sep(Tail(parts))
Obj(fields) == <<P("{")>> \o Sep(fields) \o <<P("}")>>
Arr(elems) == <<P("[")>> \o Sep(elems) \o <<P("]")>>

\* a field of EXPLAIN's output whose value varies from one execution to the
\* next when propfields flags it normalize_use = false: run a reports vol
normalize_use(name) ==
    LET p == FirstWord(propfields, name, TRUE)
    IN  p # 0 /\ propfields[p].normalize_use
Ann(name, val, vol, a) ==
    Fld(name, <<IF normalize_use(name) \/ a = 1 THEN val ELSE vol>>)

Costs(a) ==
    <<Ann("Startup Cost", Num("0.00"), Num("1.50"), a),
      Ann("Total Cost", Num("35.50"), Num("40.00"), a),
      Ann("Plan Rows", Num("10"), Num("20"), a),
      Ann("Plan Width", Num("4"), Num("8"), a)>>

Shapes == {"scan", "sort", "insert", "upsert", "merge", "foreign", "custom"}
Runs == {1, 2}

ScanNode(rel, a, more) ==
    Obj(<<Fld("Node Type", <<Str("Seq Scan")>>)>> \o more
        \o <<Fld("Relation Name", <<Str(rel)>>),
             Fld("Alias", <<Str(rel)>>)>>
        \o Costs(a)
        \o <<Ann("Filter", Str("(a = 1)"), Str("(a = 2)"), a)>>)

\* what EXPLAIN (FORMAT JSON) gives for a plan of the shape in run a,
\* without its white space
PlanDoc(shape, a) ==
    Obj(<<Fld("Plan",
          CASE shape = "scan" -> ScanNode("t1", a, <<>>)
            [] shape = "sort" ->
                 Obj(<<Fld("Node Type", <<Str("Sort")>>)>> \o Costs(a)
                     \o <<Fld("Sort Key", Arr(<<<<Str("a")>>>>)),
                          Fld("Plans",
                              Arr(<<ScanNode("t1", a,
                                      <<Fld("Parent Relationship",
                                            <<Str("Outer")>>)>>)>>))>>)
            [] shape = "insert" ->
                 Obj(<<Fld("Node Type", <<Str("ModifyTable")>>),
                       Fld("Operation", <<Str("Insert")>>),
                       Fld("Relation Name", <<Str("t2")>>),
                       Fld("Alias", <<Str("t2")>>)>> \o Costs(a)
                     \o <<Fld("Plans",
                              Arr(<<Obj(<<Fld("Node Type",
                                              <<Str("Result")>>),
                                          Fld("Parent Relationship",
                                              <<Str("Member")>>)>>
                                        \o Costs(a))>>))>>)
            [] shape = "upsert" ->
                 Obj(<<Fld("Node Type", <<Str("ModifyTable")>>),
                       Fld("Operation", <<Str("Insert")>>),
                       Fld("Relation Name", <<Str("t2")>>),
                       Fld("Alias", <<Str("t2")>>)>> \o Costs(a)
                     \o <<Fld("Conflict Resolution", <<Str("NOTHING")>>),
                          Fld("Conflict Arbiter Indexes",
                              Arr(<<<<Str("t2_pkey")>>>>)),
                          Fld("Plans",
                              Arr(<<Obj(<<Fld("Node Type",
                                              <<Str("Result")>>),
                                          Fld("Parent Relationship",
                                              <<Str("Member")>>)>>
                                        \o Costs(a))>>))>>)
            [] shape = "merge" ->
                 Obj(<<Fld("Node Type", <<Str("ModifyTable")>>),
                       Fld("Operation", <<Str("Merge")>>),
                       Fld("Relation Name", <<Str("t2")>>),
                       Fld("Alias", <<Str("t2")>>)>> \o Costs(a)
                     \o <<Fld("Plans",
                              Arr(<<ScanNode("t1", a,
                                      <<Fld("Parent Relationship",
                                            <<Str("Outer")>>)>>)>>))>>)
            [] shape = "foreign" ->
                 Obj(<<Fld("Node Type", <<Str("Foreign Scan")>>),
                       Fld("Relation Name", <<Str("t1")>>)>> \o Costs(a)
                     \o <<Fld("Remote SQL", <<Str("SELECT a")>>)>>)
            [] OTHER ->
                 Obj(<<Fld("Node Type", <<Str("Custom Scan")>>),
                       Fld("Custom Plan Provider", <<Str("x")>>)>>
                     \o Costs(a)
                     \o <<Fld("t", <<Str("Sort")>>)>>))>>)

PlanDocs == {PlanDoc(s, a) : s \in Shapes, a \in Runs}

\* a document cut right after an object start and a field name
FieldNames == {"a", "p", "Plan", "t", "zz"}
CutAfterName(name) == <<P("{"), Str(name), P(":")>>
\* what else a caller may hand to the SQL functions
RawInputs ==
    {<<Txt("not json")>>} \cup {CutAfterName(n) : n \in FieldNames}

(* --------------------- the SQL functions over one text ----------------- *)
JsonInit ==
    /\ plan_storage = "file"
    /\ lock = [excl |-> 0, shared |-> {}]
    /\ hash_table = EmptyTable
    /\ shared_state = FreshState(0)
    /\ text_file = <<>>
    /\ now = 1
    /\ ops = 0
    /\ pc = [p \in Procs |-> "idle"]
    /\ loc = [p \in Procs |-> NoLoc]
    /\ acct = [k \in Keys |-> ZeroAcct]
    /\ gc_runs = 0
    /\ postmaster = Running
    /\ dump_file = NoFile
    /\ \E src \in PlanDocs \cup RawInputs :
         session = [NoSession EXCEPT !.src = src]
    /\ pgsp_max = store_size
    /\ executor = NoExecutor
    /\ sync = NoSync
    /\ stats = NoStats

CurrentText ==
    IF session.out = <<>> THEN session.src ELSE session.out[Len(session.out)]
CanCall == session.status = "ok" /\ Len(session.calls) < MaxCalls

Returned(name, text, ok, emitted) ==
    session' = [session EXCEPT !.calls = Append(@, name),
                         !.out = Append(@, text),
                         !.ok = Append(@, ok),
                         !.emitted = Append(@, emitted)]

\* A call that read through a NULL pointer either ends the backend or goes
\* on as if the pointer held an empty string.
Call(name, r) ==
    /\ CanCall
    /\ \/ Returned(name, r.text, r.ok, r.emitted)
       \/ /\ r.crashed
          /\ session' = [session EXCEPT !.calls = Append(@, name),
                                  !.status = "crashed"]
    /\ UNCHANGED store_vars

pg_store_plans_shorten == Call("shorten", pgsp_json_shorten(CurrentText))
pg_store_plans_normalize ==
    Call("normalize", pgsp_json_normalize(CurrentText))
pg_store_plans_jsonplan == Call("jsonplan", pgsp_json_inflate(CurrentText))
pg_store_plans_textplan == Call("textplan", pgsp_json_textize(CurrentText))
pg_store_plans_yamlplan == Call("yamlplan", pgsp_json_yamlize(CurrentText))
pg_store_plans_xmlplan == Call("xmlplan", pgsp_json_xmlize(CurrentText))

\* pgsp_store keeps plan_size - 1 bytes of a shortened plan that is longer:
\* the text up to a token, or up to the middle of the string that follows
pgsp_store_clip ==
    /\ CanCall
    /\ session.calls # <<>> /\ session.calls[Len(session.calls)] = "shorten"
    /\ \E n \in 1..(Len(CurrentText) - 1), mid \in BOOLEAN :
         /\ mid => CurrentText[n + 1].k = "str"
         /\ Returned("clip",
                     SubSeq(CurrentText, 1, n)
                         \o (IF mid THEN <<Bad>> ELSE <<>>),
                     TRUE, TRUE)
    /\ UNCHANGED store_vars

JsonNext ==
    \/ pg_store_plans_shorten
    \/ pg_store_plans_normalize
    \/ pg_store_plans_jsonplan
    \/ pg_store_plans_textplan
    \/ pg_store_plans_yamlplan
    \/ pg_store_plans_xmlplan
    \/ pgsp_store_clip

SpecJson == JsonInit /\ [][JsonNext]_vars

(* ------------- entry_dealloc on tables of the configured size ---------- *)
\* values of pg_store_plans.max, which the GUC keeps at 100 or more; when
\* entry_alloc finds the table full it holds that many entries
TableSizes == {100, 200, 201, 220}

DeallocKey(q) == [userid |-> "u1", dbid |-> "db", queryid |-> q, planid |-> 11]

\* the usage of the q-th entry of a table that has been in use for a while:
\* the older the entry the more decay passes it has been through; entries
\* come in pairs of equal usage
AgedUsage(q) == ((q + 1) \div 2) * (UsageScale \div 400)

NewEntry ==
    InitEntry([counters |-> ZeroCounters, plan_offset |-> 0, plan_len |-> 0,
               text |-> IF plan_storage = "shmem" THEN "A1" ELSE ""],
              0, ClipLen(PlanLen))

\* an entry after its first execution
ExecutedEntry ==
    [NewEntry EXCEPT !.counters =
        UpdateCounters(@, CHOOSE e \in Execs : TRUE, now)]

AgedEntry(q) == [ExecutedEntry EXCEPT !.counters.usage = AgedUsage(q)]

\* a full table of n entries; with pending, the last one is an entry that
\* a backend has allocated and not executed yet (calls = 0)
FullTable(n, pending) ==
    [k \in {DeallocKey(q) : q \in 1..n} |->
        IF pending /\ k.queryid = n THEN NewEntry ELSE AgedEntry(k.queryid)]

\* A backend's entry stays at calls = 0 in front of another backend's
\* entry_dealloc only where entry_alloc runs under the shared lock, which
\* is the case with plan_storage = shmem.
DeallocInit ==
    /\ plan_storage \in StorageModes
    /\ lock = [excl |-> 0, shared |-> {}]
    /\ now = 1
    /\ pgsp_max \in TableSizes
    /\ executor = NoExecutor
    /\ sync = NoSync
    /\ stats = NoStats
    /\ \E pending \in BOOLEAN :
         /\ pending => plan_storage = "shmem"
         /\ hash_table = FullTable(pgsp_max, pending)
    /\ shared_state = FreshState(0)
    /\ text_file = <<>>
    /\ ops = 0
    /\ pc = [p \in Procs |-> "idle"]
    /\ loc = [p \in Procs |-> NoLoc]
    /\ acct = [k \in Keys |-> ZeroAcct]
    /\ gc_runs = 0
    /\ postmaster = Running
    /\ dump_file = NoFile
    /\ session = NoSession

\* (variant: the array is sorted into decreasing usage order)
VictimSets_decreasing(tab) ==
    LET n == NVictims(Count(tab))
    IN  IF n = 0 THEN {{}}
        ELSE LET u == SortedUsageAt(tab, Count(tab) - n)
                 above == {k \in DOMAIN tab : tab[k].counters.usage > u}
                 ties == {k \in DOMAIN tab : tab[k].counters.usage = u}
             IN  {above \cup T : T \in {S \in SUBSET ties :
                      Cardinality(S) = n - Cardinality(above)}}

\* the victim sets qsort's order allows: every entry below the usage of
\* entries[nvictims - 1], and as many of the entries at that usage as it
\* takes
VictimSets(tab) ==
    LET n == NVictims(Count(tab))
    IN  IF n = 0 THEN {{}}
        ELSE LET u == SortedUsageAt(tab, n - 1)
                 below == {k \in DOMAIN tab : tab[k].counters.usage < u}
                 ties == {k \in DOMAIN tab : tab[k].counters.usage = u}
             IN  {below \cup T : T \in {S \in SUBSET ties :
                      Cardinality(S) = n - Cardinality(below)}}

\* entry_alloc: one turn of "while (hash_get_num_entries >= store_size)
\* entry_dealloc()"
entry_alloc_dealloc ==
    /\ Count(hash_table) >= pgsp_max
    /\ shared_state.dealloc < MaxPasses
    /\ \E V \in VictimSets(DecayedTable(hash_table)), u \in UninitLocals :
         LET r == entry_dealloc(hash_table, shared_state, V, u[1], u[2])
         IN  /\ hash_table' = r.tab
             /\ shared_state' = r.ss
    /\ UNCHANGED <<plan_storage, lock, text_file, now, ops, pc, loc, acct,
                   gc_runs, pm_vars, session, pgsp_max, executor, sync, stats>>

\* pgsp_store of a plan that has no entry, the table having room: the rest
\* of entry_alloc and the update of the counters; the plan is the ops-th
\* new one
pgsp_store_new ==
    /\ Count(hash_table) < pgsp_max
    /\ ops' = ops + 1
    /\ hash_table' = With(hash_table, DeallocKey(pgsp_max + ops'),
                          ExecutedEntry)
    /\ UNCHANGED <<plan_storage, lock, shared_state, text_file, now, pc, loc,
                   acct, gc_runs, pm_vars, session, pgsp_max, executor, sync,
                   stats>>

\* the backend whose entry was pending goes on: pgsp_store's update of the
\* counters
pgsp_store_pending ==
    /\ DeallocKey(pgsp_max) \in DOMAIN hash_table
    /\ hash_table[DeallocKey(pgsp_max)].counters.calls = 0
    /\ hash_table' =
           [hash_table EXCEPT ![DeallocKey(pgsp_max)].counters =
               UpdateCounters(@, CHOOSE e \in Execs : TRUE, now)]
    /\ UNCHANGED <<plan_storage, lock, shared_state, text_file, now, ops, pc,
                   loc, acct, gc_runs, pm_vars, session, pgsp_max, executor,
                   sync, stats>>

DeallocNext ==
    \/ entry_alloc_dealloc
    \/ pgsp_store_new
    \/ pgsp_store_pending

SpecDealloc == DeallocInit /\ [][DeallocNext]_vars

(* --------------------------- executor hooks ---------------------------- *)
\* One backend running statements, some of them from inside the functions
\* another statement calls.  executor.stack holds the query descriptors
\* between their ExecutorStart and their ExecutorEnd, the innermost last;
\* every descriptor below the innermost one is inside its ExecutorRun or
\* ExecutorFinish.  totaltime is NULL (NoInstr) or the Instrumentation's
\* total, kept in microseconds; min_duration is in milliseconds.
MaxNesting == 2
NoInstr == -1
PGSP_NO_QUERYID == 0
TrackLevels == {"none", "top", "all"}
MinDurations == {0, 1}
Elapsed == {0, 500, 1000}
ExecQueryIds == {PGSP_NO_QUERYID, 7}

\* the same test without the nesting level
pgsp_enabled_any_level(track_level, nested_level, pg14, q) ==
    /\ track_level \in {"all", "top"}
    /\ pg14 => q # PGSP_NO_QUERYID

pgsp_enabled(track_level, nested_level, pg14, q) ==
    /\ \/ track_level = "all"
       \/ track_level = "top" /\ nested_level = 0
    /\ pg14 => q # PGSP_NO_QUERYID

Top(stack) == stack[Len(stack)]
Pop(stack) == SubSeq(stack, 1, Len(stack) - 1)
SetTop(stack, q) == [stack EXCEPT ![Len(stack)] = q]
InHook(q) == q.phase \in {"run", "finish"}

\* the statements that are inside ExecutorRun or ExecutorFinish
Depth(stack) == Cardinality({i \in 1..Len(stack) : InHook(stack[i])})

\* the shared memory and the files as the postmaster leaves them at start
AtBoot ==
    /\ lock = [excl |-> 0, shared |-> {}]
    /\ hash_table = EmptyTable
    /\ shared_state = [cur_median_usage |-> ASSUMED_MEDIAN_INIT,
                       mean_plan_len |-> ASSUMED_LENGTH_INIT,
                       extent |-> 0, n_writers |-> 0, gc_count |-> 0,
                       dealloc |-> 0, stats_reset |-> 0]
    /\ text_file = <<>>
    /\ now = 1
    /\ ops = 0
    /\ pc = [p \in Procs |-> "idle"]
    /\ loc = [p \in Procs |-> NoLoc]
    /\ acct = [k \in Keys |-> ZeroAcct]
    /\ gc_runs = 0
    /\ postmaster = Running
    /\ dump_file = NoFile
    /\ session = NoSession
    /\ pgsp_max = store_size

ExecInit ==
    /\ plan_storage = "file"
    /\ AtBoot
    /\ \E b \in BOOLEAN : executor = [NoExecutor EXCEPT !.pg14 = b]
    /\ sync = NoSync
    /\ stats = NoStats

ExecFrame == <<plan_storage, lock, hash_table, shared_state, text_file, now,
               ops, pc, loc, acct, gc_runs, pm_vars, session, pgsp_max,
               sync, stats>>

\* SET pg_store_plans.track / pg_store_plans.min_duration, between any two
\* hook calls (a function a statement calls can run SET)
assign_track_level ==
    /\ ~executor.error
    /\ \E l \in TrackLevels :
          /\ l # executor.track_level
          /\ executor' = [executor EXCEPT !.track_level = l]
    /\ UNCHANGED ExecFrame

assign_min_duration ==
    /\ ~executor.error
    /\ \E d \in MinDurations :
          /\ d # executor.min_duration
          /\ executor' = [executor EXCEPT !.min_duration = d]
    /\ UNCHANGED ExecFrame

\* a statement starts at top level, or from inside the statement that is
\* running; prev is whether the hooks called first (prev_ExecutorStart)
\* already set queryDesc->totaltime
pgsp_ExecutorStart ==
    /\ ~executor.error
    /\ Len(executor.stack) < MaxNesting
    /\ executor.stack # <<>> => InHook(Top(executor.stack))
    /\ \E q \in ExecQueryIds, prev \in BOOLEAN :
          executor' =
              [executor EXCEPT !.stack =
                  Append(@, [queryId |-> q, phase |-> "started",
                             totaltime |->
                                 IF prev \/ pgsp_enabled(executor.track_level,
                                                executor.nested_level,
                                                executor.pg14, q)
                                 THEN 0 ELSE NoInstr])]
    /\ UNCHANGED ExecFrame

ExecutorEnter(from, to) ==
    /\ ~executor.error
    /\ executor.stack # <<>>
    /\ Top(executor.stack).phase = from
    /\ executor' =
          [executor EXCEPT
              !.nested_level = @ + 1,
              !.stack = SetTop(@, [Top(@) EXCEPT !.phase = to])]
    /\ UNCHANGED ExecFrame

\* the standard executor charges the elapsed time to totaltime when the
\* descriptor has one
ExecutorReturn(from, to) ==
    /\ ~executor.error
    /\ executor.stack # <<>>
    /\ Top(executor.stack).phase = from
    /\ \E t \in Elapsed :
          executor' =
              [executor EXCEPT
                  !.nested_level = @ - 1,
                  !.stack = SetTop(@, [Top(@) EXCEPT
                      !.phase = to,
                      !.totaltime = IF @ = NoInstr THEN @ ELSE @ + t])]
    /\ UNCHANGED ExecFrame

pgsp_ExecutorRun_enter == ExecutorEnter("started", "run")
pgsp_ExecutorRun_return == ExecutorReturn("run", "ran")
pgsp_ExecutorFinish_enter == ExecutorEnter("ran", "finish")
pgsp_ExecutorFinish_return == ExecutorReturn("finish", "finished")

\* ereport(ERROR) in the innermost statement: a descriptor that is not
\* inside a hook is dropped with its memory context
ereport_error ==
    /\ ~executor.error
    /\ executor.stack # <<>>
    /\ executor' =
          [executor EXCEPT
              !.error = TRUE,
              !.stack = IF InHook(Top(@)) THEN @ ELSE Pop(@)]
    /\ UNCHANGED ExecFrame

\* PG_CATCH of pgsp_ExecutorRun and pgsp_ExecutorFinish, then PG_RE_THROW
pgsp_Executor_catch ==
    /\ executor.error
    /\ executor.stack # <<>>
    /\ executor' =
          [executor EXCEPT !.nested_level = @ - 1, !.stack = Pop(@)]
    /\ UNCHANGED ExecFrame

\* the error reaches the top level, or a subtransaction of the function
\* the running statement called traps it
error_recovered ==
    /\ executor.error
    /\ executor' = [executor EXCEPT !.error = FALSE]
    /\ UNCHANGED ExecFrame

\* whether pgsp_ExecutorEnd calls pgsp_store()
ExecutorEndStores(x, q) ==
    /\ q.totaltime # NoInstr
    /\ pgsp_enabled(x.track_level, x.nested_level, x.pg14, q.queryId)
    /\ q.totaltime # 0
    /\ q.totaltime >= x.min_duration * 1000

pgsp_ExecutorEnd ==
    /\ ~executor.error
    /\ executor.stack # <<>>
    /\ Top(executor.stack).phase \in {"started", "ran", "finished"}
    /\ executor' =
          [executor EXCEPT
              !.stack = Pop(@),
              !.last =
                  [stored |-> ExecutorEndStores(executor, Top(executor.stack)),
                   depth |-> Depth(executor.stack),
                   flip |-> ~executor.last.flip]]
    /\ UNCHANGED ExecFrame

ExecNext ==
    \/ assign_track_level
    \/ assign_min_duration
    \/ pgsp_ExecutorStart
    \/ pgsp_ExecutorRun_enter
    \/ pgsp_ExecutorRun_return
    \/ pgsp_ExecutorFinish_enter
    \/ pgsp_ExecutorFinish_return
    \/ ereport_error
    \/ pgsp_Executor_catch
    \/ error_recovered
    \/ pgsp_ExecutorEnd

SpecExec == ExecInit /\ [][ExecNext]_vars

(* --------------------------- locking skeleton ------------------------- *)
\* The backend code as the sequence of its synchronisation and file
\* operations.  A label is a line of pg_store_plans.c; an instruction is
\* what the code does there and the lines control can reach next:
\*   lw_shared, lw_excl, lw_release   LWLockAcquire / LWLockRelease on
\*                                    shared_state->lock
\*   spin_acquire, spin_release       SpinLockAcquire / SpinLockRelease on
\*                                    lk: shared_state->mutex ("mutex") or
\*                                    an entry's mutex ("entry")
\*   io                               a call that reads, writes, opens,
\*                                    closes or unlinks a file
\*   mem                              reads and writes of memory, and the
\*                                    branch that follows them
\*   loop                             the test of a loop over the table's
\*                                    entries or over the file: next is the
\*                                    body, exit what follows the loop
\*   call, return                     a call of the function at line to
\* The data the branches test is left out: a branch can go either way.
MaxIter == 2

Ins(kind, next) ==
    [kind |-> kind, next |-> next, shmem |-> next, lk |-> "none", to |-> 0,
     exit |-> 0]
\* a branch on plan_storage among others: where the file mode can go next,
\* and where the shmem mode can
ByMode(file, shmem) == [Ins("mem", file) EXCEPT !.shmem = shmem]
SpinAcquire(lk, next) == [Ins("spin_acquire", {next}) EXCEPT !.lk = lk]
SpinRelease(lk, next) == [Ins("spin_release", {next}) EXCEPT !.lk = lk]
Invoke(to, next) == [Ins("call", {next}) EXCEPT !.to = to]
Loop(body, exit) == [Ins("loop", {body}) EXCEPT !.exit = exit]
Return == Ins("return", {})

\* "goto done" after the second failed append leaves without LWLockRelease
GiveUp_locked == Ins("mem", {1306})

\* "if (!stored) goto done;"
GiveUp == Ins("mem", {1301})

pgsp_store_code ==
    1182 :> Ins("lw_shared", {1184})
    @@ 1184 :> ByMode({1193, 1245}, {1225, 1245})
    @@ 1193 :> Invoke(1826, 1200)
    @@ 1200 :> Invoke(2023, 1203)
    @@ 1203 :> Ins("lw_release", {1204})
    @@ 1204 :> Ins("lw_excl", {1213})
    @@ 1213 :> Ins("mem", {1214, 1225})
    @@ 1214 :> Invoke(1826, 1217)
    @@ 1217 :> Ins("mem", {1218, 1225})
    @@ 1218 :> GiveUp
    @@ 1225 :> Invoke(1679, 1228)
    @@ 1228 :> ByMode({1234, 1245}, {1245})
    @@ 1234 :> Invoke(2079, 1245)
    @@ 1245 :> SpinAcquire("entry", 1248)
    @@ 1248 :> Ins("mem", {1298})
    @@ 1298 :> SpinRelease("entry", 1301)
    @@ 1301 :> Ins("lw_release", {1306})
    @@ 1306 :> Return

\* the append made while shared_state->mutex is still held
ptext_store_code_locked ==
    1826 :> SpinAcquire("mutex", 1827)
    @@ 1827 :> Ins("mem", {1838})
    @@ 1838 :> Ins("io", {1842, 1861})
    @@ 1842 :> Ins("io", {1832, 1861})
    @@ 1832 :> SpinRelease("mutex", 1847)
    @@ 1847 :> Ins("io", {1853})
    @@ 1853 :> SpinAcquire("mutex", 1854)
    @@ 1854 :> Ins("mem", {1855})
    @@ 1855 :> SpinRelease("mutex", 1858)
    @@ 1858 :> Return
    @@ 1861 :> Ins("io", {1867})
    @@ 1867 :> SpinRelease("mutex", 1873)
    @@ 1873 :> SpinAcquire("mutex", 1874)
    @@ 1874 :> Ins("mem", {1875})
    @@ 1875 :> SpinRelease("mutex", 1878)
    @@ 1878 :> Return

ptext_store_code ==
    1826 :> SpinAcquire("mutex", 1827)
    @@ 1827 :> Ins("mem", {1832})
    @@ 1832 :> SpinRelease("mutex", 1838)
    @@ 1838 :> Ins("io", {1842, 1861})
    @@ 1842 :> Ins("io", {1847, 1861})
    @@ 1847 :> Ins("io", {1853})
    @@ 1853 :> SpinAcquire("mutex", 1854)
    @@ 1854 :> Ins("mem", {1855})
    @@ 1855 :> SpinRelease("mutex", 1858)
    @@ 1858 :> Return
    @@ 1861 :> Ins("io", {1867})
    @@ 1867 :> Ins("io", {1873})
    @@ 1873 :> SpinAcquire("mutex", 1874)
    @@ 1874 :> Ins("mem", {1875})
    @@ 1875 :> SpinRelease("mutex", 1878)
    @@ 1878 :> Return

need_gc_ptexts_code ==
    2023 :> SpinAcquire("mutex", 2024)
    @@ 2024 :> Ins("mem", {2025})
    @@ 2025 :> SpinRelease("mutex", 2029)
    @@ 2029 :> Ins("mem", {2043})
    @@ 2043 :> Return

entry_alloc_code ==
    1679 :> Loop(1680, 1683)
    @@ 1680 :> Invoke(1746, 1679)
    @@ 1683 :> Ins("mem", {1702})
    @@ 1702 :> Return

entry_dealloc_code ==
    1746 :> Ins("mem", {1789})
    @@ 1789 :> SpinAcquire("mutex", 1790)
    @@ 1790 :> Ins("mem", {1791})
    @@ 1791 :> SpinRelease("mutex", 1793)
    @@ 1793 :> Return

ptext_load_file_code ==
    1902 :> Ins("io", {1914, 1910})
    @@ 1910 :> Return
    @@ 1914 :> Ins("io", {1925, 1920})
    @@ 1920 :> Ins("io", {1910})
    @@ 1925 :> Ins("mem", {1946, 1920})
    @@ 1946 :> Loop(1958, 1972)
    @@ 1958 :> Ins("io", {1946, 1920})
    @@ 1972 :> Ins("io", {1978})
    @@ 1978 :> Return

gc_ptexts_code ==
    2079 :> Invoke(2023, 2080)
    @@ 2080 :> Ins("mem", {2089, 2220})
    @@ 2089 :> Invoke(1902, 2090)
    @@ 2090 :> Ins("mem", {2099, 2187})
    @@ 2099 :> Ins("io", {2113, 2187})
    @@ 2113 :> Loop(2116, 2149)
    @@ 2116 :> Ins("mem", {2113, 2130})
    @@ 2130 :> Ins("io", {2113, 2187})
    @@ 2149 :> Ins("io", {2155})
    @@ 2155 :> Ins("io", {2169, 2187})
    @@ 2169 :> Ins("mem", {2220})
    @@ 2187 :> Ins("io", {2195})
    @@ 2195 :> Ins("mem", {2205})
    @@ 2205 :> Ins("io", {2206})
    @@ 2206 :> Ins("io", {2216})
    @@ 2216 :> Ins("mem", {2220})
    @@ 2220 :> Return

pg_store_plans_internal_code ==
    1410 :> SpinAcquire("mutex", 1411)
    @@ 1411 :> Ins("mem", {1414})
    @@ 1414 :> SpinRelease("mutex", 1418)
    @@ 1418 :> ByMode({1419, 1432}, {1432})
    @@ 1419 :> Invoke(1902, 1432)
    @@ 1432 :> Ins("lw_shared", {1444})
    @@ 1444 :> ByMode({1451, 1455}, {1455})
    @@ 1451 :> Invoke(1902, 1455)
    @@ 1455 :> Loop(1457, 1587)
    @@ 1457 :> Ins("mem", {1537})
    @@ 1537 :> SpinAcquire("entry", 1538)
    @@ 1538 :> Ins("mem", {1539})
    @@ 1539 :> SpinRelease("entry", 1543)
    @@ 1543 :> Ins("mem", {1455, 1584})
    @@ 1584 :> Ins("io", {1455})
    @@ 1587 :> Ins("lw_release", {1590})
    @@ 1590 :> Ins("mem", {1591})
    @@ 1591 :> Return

pg_store_plans_info_code ==
    1623 :> SpinAcquire("mutex", 1624)
    @@ 1624 :> Ins("mem", {1625})
    @@ 1625 :> SpinRelease("mutex", 1631)
    @@ 1631 :> Return

entry_reset_code ==
    2237 :> Ins("lw_excl", {2239})
    @@ 2239 :> Ins("mem", {2252})
    @@ 2252 :> SpinAcquire("mutex", 2253)
    @@ 2253 :> Ins("mem", {2255})
    @@ 2255 :> SpinRelease("mutex", 2262)
    @@ 2262 :> Ins("io", {2265, 2273})
    @@ 2265 :> Ins("io", {2282})
    @@ 2273 :> Ins("io", {2279})
    @@ 2279 :> Ins("io", {2282})
    @@ 2282 :> Ins("mem", {2283})
    @@ 2283 :> Ins("lw_release", {2284})
    @@ 2284 :> Return

Code ==
    pgsp_store_code @@ ptext_store_code @@ need_gc_ptexts_code
    @@ entry_alloc_code @@ entry_dealloc_code @@ ptext_load_file_code
    @@ gc_ptexts_code @@ pg_store_plans_internal_code
    @@ pg_store_plans_info_code @@ entry_reset_code

\* pgsp_store, pg_store_plans_internal, pg_store_plans_info, entry_reset
EntryPoints == {1182, 1410, 1623, 2237}

At(p) == sync.at[p][Len(sync.at[p])]
Inside(p) == sync.at[p] # <<>>
Doing(p, kind) == Inside(p) /\ Code[At(p)].kind = kind
Goto(p, l) == [sync EXCEPT !.at[p] = [@ EXCEPT ![Len(@)] = l]]
HolderOf(lk) == IF lk = "mutex" THEN sync.mutex ELSE sync.entry_mutex
Targets(p) ==
    IF plan_storage = "file" THEN Code[At(p)].next ELSE Code[At(p)].shmem

LocksInit ==
    /\ plan_storage \in StorageModes
    /\ AtBoot
    /\ executor = NoExecutor
    /\ sync = NoSync
    /\ stats = NoStats

LocksFrame == <<plan_storage, hash_table, shared_state, text_file, now, pc,
                loc, acct, gc_runs, pm_vars, session, pgsp_max, executor,
                stats>>

\* a backend calls store(), the snapshot, the info function or reset()
backend_call(p) ==
    /\ ~Inside(p)
    /\ ops < MaxOps
    /\ \E l \in EntryPoints :
          sync' = [sync EXCEPT !.at[p] = <<l>>, !.iter[p] = 0]
    /\ ops' = ops + 1
    /\ UNCHANGED <<lock, LocksFrame>>

lw_acquire_shared(p) ==
    /\ Doing(p, "lw_shared")
    /\ CanShare
    /\ lock' = AcquireShared(p)
    /\ \E l \in Targets(p) : sync' = Goto(p, l)
    /\ UNCHANGED <<ops, LocksFrame>>

lw_acquire_exclusive(p) ==
    /\ Doing(p, "lw_excl")
    /\ CanExcl
    /\ lock' = AcquireExcl(p)
    /\ \E l \in Targets(p) : sync' = Goto(p, l)
    /\ UNCHANGED <<ops, LocksFrame>>

lw_release(p) ==
    /\ Doing(p, "lw_release")
    /\ lock' = Release(p)
    /\ \E l \in Targets(p) : sync' = Goto(p, l)
    /\ UNCHANGED <<ops, LocksFrame>>

\* SpinLockAcquire spins until the lock is free
spin_acquire(p) ==
    /\ Doing(p, "spin_acquire")
    /\ HolderOf(Code[At(p)].lk) = 0
    /\ \E l \in Targets(p) :
          sync' = IF Code[At(p)].lk = "mutex"
                  THEN [Goto(p, l) EXCEPT !.mutex = p]
                  ELSE [Goto(p, l) EXCEPT !.entry_mutex = p]
    /\ UNCHANGED <<lock, ops, LocksFrame>>

\* SpinLockRelease stores "free" whoever holds the lock
spin_release(p) ==
    /\ Doing(p, "spin_release")
    /\ \E l \in Targets(p) :
          sync' = IF Code[At(p)].lk = "mutex"
                  THEN [Goto(p, l) EXCEPT !.mutex = 0]
                  ELSE [Goto(p, l) EXCEPT !.entry_mutex = 0]
    /\ UNCHANGED <<lock, ops, LocksFrame>>

file_io(p) ==
    /\ Doing(p, "io")
    /\ \E l \in Targets(p) : sync' = Goto(p, l)
    /\ UNCHANGED <<lock, ops, LocksFrame>>

memory(p) ==
    /\ Doing(p, "mem")
    /\ \E l \in Targets(p) : sync' = Goto(p, l)
    /\ UNCHANGED <<lock, ops, LocksFrame>>

\* a loop over the entries of the table, or over the segments of the file,
\* makes a bounded number of turns
loop_test(p) ==
    /\ Doing(p, "loop")
    /\ \/ /\ sync.iter[p] < MaxIter
          /\ \E l \in Targets(p) :
                sync' = [Goto(p, l) EXCEPT !.iter[p] = @ + 1]
       \/ sync' = Goto(p, Code[At(p)].exit)
    /\ UNCHANGED <<lock, ops, LocksFrame>>

function_call(p) ==
    /\ Doing(p, "call")
    /\ \E l \in Targets(p) :
          sync' = [sync EXCEPT !.at[p] =
                      Append([@ EXCEPT ![Len(@)] = l], Code[At(p)].to)]
    /\ UNCHANGED <<lock, ops, LocksFrame>>

function_return(p) ==
    /\ Doing(p, "return")
    /\ sync' = [sync EXCEPT !.at[p] = SubSeq(@, 1, Len(@) - 1)]
    /\ UNCHANGED <<lock, ops, LocksFrame>>

\* the steps of backend p once it is inside the code
BackendStep(p) ==
    \/ lw_acquire_shared(p)
    \/ lw_acquire_exclusive(p)
    \/ lw_release(p)
    \/ spin_acquire(p)
    \/ spin_release(p)
    \/ file_io(p)
    \/ memory(p)
    \/ loop_test(p)
    \/ function_call(p)
    \/ function_return(p)

LocksNext ==
    \E p \in Procs :
        \/ backend_call(p)
        \/ lw_acquire_shared(p)
        \/ lw_acquire_exclusive(p)
        \/ lw_release(p)
        \/ spin_acquire(p)
        \/ spin_release(p)
        \/ file_io(p)
        \/ memory(p)
        \/ loop_test(p)
        \/ function_call(p)
        \/ function_return(p)

SpecLocks == LocksInit /\ [][LocksNext]_vars

\* every backend that is inside the code keeps running, and file
\* operations complete
SpecLocksFair == SpecLocks /\ \A p \in Procs : WF_vars(BackendStep(p))

(* ------------------------------- claims -------------------------------- *)
AllIdle == \A p \in Procs : pc[p] = "idle"
Executed(tab) == {k \in DOMAIN tab : tab[k].counters.calls > 0}

\* the plan text an entry resolves to, from the table and the current file
EntryText(key) ==
    IF plan_storage = "file"
    THEN ptext_fetch(hash_table[key].plan_offset, hash_table[key].plan_len,
                     ptext_load_file(text_file, TRUE))
    ELSE [ok |-> TRUE, str |-> hash_table[key].text]

\* C1: once every store() has returned, each entry's calls, total_time and
\* rows are the sums over the store() calls applied to its key since the
\* entry was created (no lost update), in both storage modes
C1_NoLostUpdate ==
    AllIdle =>
        \A k \in DOMAIN hash_table :
            /\ hash_table[k].counters.calls = acct[k].calls
            /\ hash_table[k].counters.total_time = acct[k].total_time
            /\ hash_table[k].counters.rows = acct[k].rows

\* C2: the table never holds more entries than pg_store_plans.max
C2_CountWithinCapacity == Count(hash_table) <= store_size

\* C3: a store() that goes on to entry_alloc without appending its text a
\* second time has seen no garbage collection since its first append
C3_GcDetected ==
    \A p \in Procs :
        (plan_storage = "file" /\ pc[p] = "st_alloc" /\ loc[p].attempt = 1)
            => loc[p].gc_seen = gc_runs

\* C4: the scan of a snapshot completes without failing and returns exactly
\* one row for each entry with calls > 0 and none for the others, whether or
\* not the entries' plan texts are available
C4_SnapshotComplete ==
    [][\A p \in Procs :
          (pc[p] = "sn_scan" /\ pc'[p] = "sn_done") =>
              /\ ~loc'[p].failed
              /\ Len(loc'[p].rows) = Cardinality(Executed(hash_table))
              /\ {loc'[p].rows[i].of : i \in 1..Len(loc'[p].rows)}
                     = Executed(hash_table)]_vars

\* the rows a scan step of backend p by a caller without the read-all-stats
\* privilege returns for other users' entries all satisfy R(row, key)
ForeignRows(R(_, _)) ==
    \A p \in Procs :
        (pc[p] = "sn_scan" /\ pc'[p] = "sn_done" /\ ~loc'[p].failed
             /\ ~loc[p].is_allowed_role)
            => \A i \in 1..Len(loc'[p].rows) :
                   LET row == loc'[p].rows[i]
                   IN  row.of.userid # loc[p].userid => R(row, row.of)

ForeignRowKept(row, k) ==
    /\ k \in DOMAIN hash_table
    /\ row.userid = k.userid
    /\ row.dbid = k.dbid
    /\ row.counters = hash_table[k].counters
    /\ row.plan = InsufficientPrivilege

\* C5 as stated: the row of another user's entry keeps user id, database
\* id, query fingerprint, plan fingerprint and counters; only the plan text
\* is replaced by the placeholder
C5_ForeignRowOriginal ==
    [][ForeignRows(LAMBDA row, k : /\ ForeignRowKept(row, k)
                                   /\ row.queryid = k.queryid
                                   /\ row.planid = k.planid)]_vars

\* C5 amended: the row of another user's entry keeps user id, database id
\* and counters; the plan text is replaced by the placeholder and the query
\* and plan fingerprints by 0
C5_ForeignRowMasked ==
    [][ForeignRows(LAMBDA row, k : /\ ForeignRowKept(row, k)
                                   /\ row.queryid = 0
                                   /\ row.planid = 0)]_vars

C5_Witness ==
    \E p \in Procs :
        /\ pc[p] = "sn_done" /\ ~loc[p].failed /\ ~loc[p].is_allowed_role
        /\ \E i \in 1..Len(loc[p].rows) :
               loc[p].rows[i].of.userid # loc[p].userid

\* the texts a stored plan could be
AllTexts == {pl.text : pl \in Plans} \cup {""}

RecordOf(entry) == (entry.plan_offset \div RecLen) + 1

\* the states that differ from the current one only in the plan texts of
\* entries the caller of backend p's snapshot does not own: in shmem mode
\* the text held in those entries, in file mode the records of the loaded
\* file image only those entries point to
ForeignKeys(p) == {k \in DOMAIN hash_table : k.userid # loc[p].userid}
ForeignRecords(p) ==
    {RecordOf(hash_table[k]) : k \in ForeignKeys(p)}
        \ {RecordOf(hash_table[k]) : k \in (DOMAIN hash_table) \ ForeignKeys(p)}
VariantTables(p) ==
    IF plan_storage = "file" THEN {hash_table}
    ELSE {t \in [DOMAIN hash_table ->
                    {[hash_table[k] EXCEPT !.text = x] :
                        k \in DOMAIN hash_table, x \in AllTexts}] :
            \A k \in DOMAIN hash_table :
                /\ [t[k] EXCEPT !.text = ""] = [hash_table[k] EXCEPT !.text = ""]
                /\ k \notin ForeignKeys(p) => t[k] = hash_table[k]}
VariantBuffers(p) ==
    IF plan_storage # "file" \/ ~loc[p].pbuffer.ok THEN {loc[p].pbuffer}
    ELSE {[ok |-> TRUE, data |-> d] :
            d \in {f \in [1..Len(loc[p].pbuffer.data) -> AllTexts] :
                     \A i \in 1..Len(loc[p].pbuffer.data) :
                         i \notin ForeignRecords(p)
                             => f[i] = loc[p].pbuffer.data[i]}}

\* C6: for a caller without the read-all-stats privilege, the outcome of the
\* scan is the same in every state that differs from the current one only in
\* other users' plan texts
C6_TextNoninterference ==
    \A p \in Procs :
        (pc[p] = "sn_scan" /\ ~loc[p].is_allowed_role) =>
            \A t \in VariantTables(p), b \in VariantBuffers(p),
               order \in Perms(DOMAIN hash_table), ub \in {"crash", "garbage"} :
                ScanTable(t, order, 1, b, loc[p].userid, FALSE,
                          loc[p].plan_format, ub)
                    = ScanTable(hash_table, order, 1, loc[p].pbuffer,
                                loc[p].userid, FALSE, loc[p].plan_format, ub)

C6_Witness ==
    \E p \in Procs :
        /\ pc[p] = "sn_scan" /\ ~loc[p].is_allowed_role
        /\ \E k \in ForeignKeys(p) :
               /\ hash_table[k].counters.calls > 0
               /\ IF plan_storage = "file"
                  THEN /\ ptext_fetch(hash_table[k].plan_offset,
                                      hash_table[k].plan_len,
                                      loc[p].pbuffer).ok
                       /\ RecordOf(hash_table[k]) \in ForeignRecords(p)
                  ELSE hash_table[k].text # ""

\* C7: no step of a snapshot call changes the table (membership, counters,
\* usage, plan offsets and lengths) or the shared scalars
SnapshotPcs == {"sn_load", "sn_lock", "sn_scan", "sn_done"}
C7_SnapshotReadOnly ==
    [][(\E p \in Procs : /\ pc'[p] # pc[p]
                         /\ (pc[p] \in SnapshotPcs \/ pc'[p] \in SnapshotPcs))
           => UNCHANGED <<hash_table, shared_state>>]_vars

C7_Witness ==
    \E p \in Procs :
        pc[p] = "sn_done" /\ ~loc[p].failed /\ Len(loc[p].rows) > 0

\* C8: when a store() that found its key in the table has updated the
\* entry, the entry's plan text is the shortened plan of that call
C8_TextIsLatest ==
    \A p \in Procs :
        (pc[p] = "st_done" /\ loc[p].entry /\ loc[p].key \in DOMAIN hash_table)
            => EntryText(loc[p].key) = [ok |-> TRUE, str |-> loc[p].text]

\* C9: a store() whose text append fails for the second time returns
\* normally: it has written nothing to the table, it releases the table lock
\* and n_writers is back at the value it had before the append
C9_FailedAppendHarmless ==
    [][\A p \in Procs :
          (pc[p] = "st_done" /\ loc[p].failed /\ pc'[p] = "idle")
              => /\ ~loc[p].touched
                 /\ hash_table' = hash_table
                 /\ lock'.excl # p /\ p \notin lock'.shared
                 /\ shared_state'.n_writers = loc[p].n_writers0]_vars

C9_Witness == \E p \in Procs : pc[p] = "st_done" /\ loc[p].failed

ResetDone(p) ==
    /\ Count(hash_table) = 0
    /\ shared_state.dealloc = 0
    /\ shared_state.stats_reset = now - 1
    /\ shared_state.extent = 0

\* C10 as stated: when reset() is about to release the lock, the table is
\* empty, dealloc is 0, the reset timestamp is the time of this reset, the
\* text file is empty and extent is 0
C10_ResetOriginal ==
    \A p \in Procs : pc[p] = "rs_done" => ResetDone(p) /\ text_file = <<>>

\* C10 amended: when reset() is about to release the lock, the table is
\* empty, dealloc is 0, the reset timestamp is the time of this reset and
\* extent is 0; the text file is empty if it could be opened for writing
C10_ResetAmended ==
    \A p \in Procs :
        pc[p] = "rs_done" =>
            ResetDone(p) /\ (~loc[p].failed => text_file = <<>>)

C10_Witness ==
    \E p \in Procs :
        /\ pc[p] = "rs_done" /\ ~loc[p].failed
        /\ \E k \in Keys : acct[k].calls > 0

\* startup has loaded the dump the last shutdown put in place, the dump was
\* not altered in between, no file operation of startup failed and the
\* table that was dumped fitted the capacity
RoundTrip ==
    /\ postmaster.state = "up"
    /\ postmaster.dumped
    /\ ~postmaster.damaged
    /\ ~postmaster.io_failed
    /\ Count(postmaster.old_table) <= store_size
SameCounters(keys) ==
    \A k \in keys \cap DOMAIN hash_table :
        hash_table[k].counters = postmaster.old_table[k].counters

\* C11 as stated: after a dump and a load with the same settings the table
\* holds exactly the entries that had calls > 0 at shutdown, with the same
\* counters
C11_RoundTripOriginal ==
    RoundTrip =>
        /\ DOMAIN hash_table = Executed(postmaster.old_table)
        /\ SameCounters(Executed(postmaster.old_table))

\* what the round trip does keep: exactly the entries that had calls > 0
\* and an available plan text at shutdown, with the same counters
RoundTripKeepsTexted ==
    RoundTrip =>
        LET kept == {k \in Executed(postmaster.old_table) :
                        postmaster.old_texts[k].ok}
        IN  /\ DOMAIN hash_table = kept
            /\ SameCounters(kept)

\* C12: the entry count in the header of a dump file the shutdown hook
\* wrote equals the number of records that follow it
C12_HeaderCountsRecords ==
    (dump_file.exists /\ ~postmaster.damaged)
        => dump_file.num = Len(dump_file.recs)

\* startup has left by read_error or data_error
LoadError ==
    /\ postmaster.state = "up"
    /\ postmaster.error \in {"read_error", "data_error"}

\* C13 as stated: after a read or format error in the dump file startup
\* has completed, the dump file is deleted and the table is empty
C13_LoadErrorOriginal ==
    LoadError => dump_file = NoFile /\ hash_table = EmptyTable

\* what the failure exit does leave: the dump file is deleted, the table
\* holds the entries (calls > 0) of the records read completely before the
\* error, less any that entry_dealloc evicted during the load
LoadErrorKeepsRead ==
    LoadError =>
        LET good == {j \in 1..postmaster.nread :
                        postmaster.found_file.recs[j].counters.calls > 0}
            keys == {postmaster.found_file.recs[j].key : j \in good}
        IN  /\ dump_file = NoFile
            /\ DOMAIN hash_table \subseteq keys
            /\ ~postmaster.evicted =>
                   /\ DOMAIN hash_table = keys
                   /\ \A j \in good :
                          LET rec == postmaster.found_file.recs[j]
                          IN  hash_table[rec.key].counters = rec.counters

\* a step in which gc_ptexts rewrote the text file and at least one entry
\* kept its text (the failure exit leaves every plan_len at -1)
GcCompacted ==
    /\ gc_runs' > gc_runs
    /\ \E k \in DOMAIN hash_table' : hash_table'[k].plan_len >= 0

\* C14: gc_count never decreases, and it strictly increases in every step
\* in which the garbage collector compacts the text file
C14_GcCountAdvances ==
    [][/\ shared_state'.gc_count >= shared_state.gc_count
       /\ GcCompacted => shared_state'.gc_count > shared_state.gc_count]_vars

(* ----------------------- claims on the transcoders --------------------- *)
LastCall == session.calls[Len(session.calls)]
LastOut == session.out[Len(session.out)]
\* the text the last call was applied to
LastIn ==
    IF Len(session.out) = 1 THEN session.src
    ELSE session.out[Len(session.out) - 1]

\* a session that shortened a plan document, inflated the result and
\* shortened that again
RoundTripSession ==
    /\ session.src \in PlanDocs
    /\ session.calls = <<"shorten", "jsonplan", "shorten">>

\* C15 as stated: for every well-formed plan document p, over known and
\* unknown field names and values, Shorten(Inflate(Shorten(p))) equals
\* Shorten(p) byte for byte
C15_RoundTripIdempotent ==
    RoundTripSession => Render(session.out[3]) = Render(session.out[1])

\* the field names of a text that no row of propfields has as a long name
\* but one has as a short name
ShortCodeFields(text) ==
    {text[i].v : i \in {j \in 1..(Len(text) - 1) :
                          /\ text[j].k = "str" /\ text[j + 1].k = ":"
                          /\ FirstWord(propfields, text[j].v, TRUE) = 0
                          /\ FirstWord(propfields, text[j].v, FALSE) # 0}}

\* what does hold: the round trip gives back the shortened plan of every
\* document none of whose unknown field names is a short code
RoundTripWithoutShortCodes ==
    RoundTripSession /\ ShortCodeFields(session.src) = {}
        => Render(session.out[3]) = Render(session.out[1])

\* a field the table knows and flags normalize_use = false
Volatile(name) ==
    LET p == FirstWord(propfields, name, TRUE)
    IN  p # 0 /\ ~propfields[p].normalize_use

\* two texts that differ only in scalar values of fields flagged
\* normalize_use = false
DifferOnlyInVolatile(p, q) ==
    /\ Len(p) = Len(q)
    /\ \A i \in 1..Len(p) :
         \/ p[i] = q[i]
         \/ /\ i > 2
            /\ IsScalar(p[i]) /\ IsScalar(q[i])
            /\ p[i - 1].k = ":" /\ q[i - 1].k = ":"
            /\ p[i - 2].k = "str" /\ p[i - 2] = q[i - 2]
            /\ Volatile(p[i - 2].v)

\* a session whose first call normalized a plan document
NormalizedPlan ==
    /\ session.src \in PlanDocs
    /\ session.calls # <<>> /\ session.calls[1] = "normalize"

\* C16: two well-formed plan documents that differ only in the scalar
\* values of fields flagged normalize_use = false are normalized to the
\* same bytes, and so hash to the same plan id
C16_FingerprintDeterminism ==
    NormalizedPlan =>
        \A q \in PlanDocs :
            DifferOnlyInVolatile(session.src, q) =>
                Render(pgsp_json_normalize(q).text) = Render(session.out[1])

\* a plan document was normalized and another one differs from it in its
\* costs, rows and width only
C16_Witness ==
    /\ NormalizedPlan
    /\ session.out[1] # <<>>
    /\ \E q \in PlanDocs : q # session.src
                           /\ DifferOnlyInVolatile(session.src, q)

\* the last call was one of the four functions that report a malformed
\* input
ReportingCall ==
    /\ session.calls # <<>>
    /\ LastCall \in {"jsonplan", "textplan", "yamlplan", "xmlplan"}

\* the text the last call returned has the form the failure handling of
\* the four functions gives it
FollowsFailurePolicy ==
    LET n == Len(session.out)
        text == session.out[n]
        partial == SubSeq(text, 1, Len(text) - 1)
    IN  IF session.ok[n]
        THEN /\ NotJsonMarker \notin {text[i] : i \in 1..Len(text)}
             /\ TruncatedMarker \notin {text[i] : i \in 1..Len(text)}
        ELSE IF ~session.emitted[n]
        THEN text = <<NotJsonMarker>>
        ELSE /\ Len(text) >= 3
             /\ text[Len(text)] = TruncatedMarker
             /\ EndsInNewline(partial)

\* C17: Inflate, Textize, Yamlize and Xmlize return normally whatever the
\* input; when it fails to parse completely the result is exactly
\* "<Input was not JSON>" if no plan output had been emitted, otherwise the
\* partial output, a line break if it did not end with one, and
\* "<truncated>"; when the parse succeeds neither marker is appended
C17_MalformedInputPolicy ==
    ReportingCall => session.status = "ok" /\ FollowsFailurePolicy

\* what does hold: a call that returns follows the policy
MalformedInputPolicyOfReturns ==
    ReportingCall /\ session.status = "ok" => FollowsFailurePolicy

\* the session textizes a document cut right after its object start and
\* first field name
TextizedCutDocument ==
    /\ \E n \in FieldNames : session.src = CutAfterName(n)
    /\ session.calls # <<>>
    /\ session.calls[1] = "textplan"

\* C18 as stated: Textize of a document cut after an object start and a
\* field name returns a string that ends in "<truncated>"
C18_CutDocumentEndsTruncated ==
    TextizedCutDocument =>
        /\ session.status = "ok"
        /\ session.out[1][Len(session.out[1])] = TruncatedMarker

\* C18: Textize of a document cut after its object start and first field
\* name returns normally, and since nothing of a plan has been printed by
\* then the string it returns is exactly "<Input was not JSON>"
C18_CutDocumentIsNotJson ==
    TextizedCutDocument =>
        /\ session.status = "ok"
        /\ ~session.ok[1]
        /\ Render(session.out[1]) = "<Input was not JSON>"

C18_Witness ==
    /\ TextizedCutDocument
    /\ session.src = CutAfterName("a")
    /\ session.out[1] = <<NotJsonMarker>>

\* a step that is one entry_dealloc() call
DeallocStep == shared_state'.dealloc = shared_state.dealloc + 1
Evicted == (DOMAIN hash_table) \ (DOMAIN hash_table')

\* C19 as stated: one entry_dealloc() call on a table of count entries
\* removes exactly max(10, ceil(0.05 * count)) entries, and never more than
\* count
C19_RemovesCeilOfFivePercent ==
    [][DeallocStep =>
        LET count == Count(hash_table)
        IN  /\ DOMAIN hash_table' \subseteq DOMAIN hash_table
            /\ Cardinality(Evicted) = Max(10, (5 * count + 99) \div 100)
            /\ Cardinality(Evicted) <= count]_vars

\* C19: one entry_dealloc() call on a table of count entries removes exactly
\* min(count, max(10, floor(0.05 * count))) entries and adds none
C19_RemovesFloorOfFivePercent ==
    [][DeallocStep =>
        LET count == Count(hash_table)
        IN  /\ DOMAIN hash_table' \subseteq DOMAIN hash_table
            /\ Cardinality(Evicted) = Min(count, Max(10, (5 * count) \div 100))
      ]_vars

\* a table of 201 entries after its first entry_dealloc(): ten are gone,
\* where rounding up would have taken eleven
C19_Witness ==
    /\ pgsp_max = 201
    /\ shared_state.dealloc = 1
    /\ Count(hash_table) = 191

\* the usage the claim gives an entry after a pass, in the unit of usage
\* (a millionth): half for calls = 0, 99 hundredths otherwise
HalfOf(e, usage) == e.counters.calls = 0 /\ usage * 2 = e.counters.usage
NinetyNineHundredthsOf(e, usage) ==
    /\ e.counters.calls > 0
    /\ usage * 100 <= e.counters.usage * 99
    /\ e.counters.usage * 99 < (usage + 1) * 100
ClaimedDecay(e) ==
    IF e.counters.calls = 0 THEN e.counters.usage \div 2
    ELSE (e.counters.usage * 99) \div 100

PassDecaysThenEvicts ==
    DeallocStep =>
        /\ \A k \in DOMAIN hash_table' :
              \/ HalfOf(hash_table[k], hash_table'[k].counters.usage)
              \/ NinetyNineHundredthsOf(hash_table[k],
                                        hash_table'[k].counters.usage)
        /\ \A v \in Evicted, w \in DOMAIN hash_table' :
              ClaimedDecay(hash_table[v]) <= ClaimedDecay(hash_table[w])

\* an entry never executed since the table was set up has been through
\* every pass; entry_alloc seeds it with USAGE_INIT (sticky is always
\* false), so after three passes it holds an eighth of that; and three
\* halvings take the 10.0 of ASSUMED_MEDIAN_INIT to 1.25
UntouchedAfterThreePasses ==
    /\ \A k \in DOMAIN hash_table :
          hash_table[k].counters.calls = 0 /\ shared_state.dealloc = 3
              => hash_table[k].counters.usage * 8 = USAGE_INIT
    /\ Decay(Decay(Decay(ASSUMED_MEDIAN_INIT, STICKY_DECREASE_FACTOR),
                   STICKY_DECREASE_FACTOR), STICKY_DECREASE_FACTOR) * 4
          = 5 * UsageScale

\* C20: one entry_dealloc() pass multiplies the usage of every entry with
\* calls = 0 by 0.5 and of every entry with calls > 0 by 0.99, and chooses
\* the victims by the decayed values; an entry that stays unexecuted
\* through three passes holds an eighth of its seed (10.0 becomes 1.25)
C20_StickyDecayAsymmetry ==
    [][PassDecaysThenEvicts]_vars /\ []UntouchedAfterThreePasses

C20_Witness ==
    /\ shared_state.dealloc = 3
    /\ \E k \in DOMAIN hash_table :
          /\ hash_table[k].counters.calls = 0
          /\ hash_table[k].counters.usage * 8 = USAGE_INIT
    /\ \E k \in DOMAIN hash_table : hash_table[k].counters.calls > 0

\* C21: the ExecutorEnd hook hands a plan to pgsp_store() only if tracking
\* is 'all', or 'top' with no statement inside ExecutorRun or
\* ExecutorFinish, and the statement's total elapsed time is nonzero and at
\* least min_duration milliseconds; with tracking 'none' it never does
StoredAtEnd ==
    executor'.last.flip # executor.last.flip /\ executor'.last.stored

C21_RecordedOnlyIfTracked ==
    [][StoredAtEnd =>
          /\ \/ executor.track_level = "all"
             \/ executor.track_level = "top" /\ Depth(executor.stack) = 0
          /\ executor.track_level # "none"
          /\ Top(executor.stack).totaltime > 0
          /\ Top(executor.stack).totaltime >= 1000 * executor.min_duration]_vars

\* a top-level statement was recorded under 'top' with a threshold of 1 ms
C21_Witness ==
    /\ executor.last.stored
    /\ executor.last.depth = 0
    /\ executor.track_level = "top"
    /\ executor.min_duration = 1
    /\ executor.stack = <<>>

\* C23: a backend that is inside entry_alloc (with its entry_dealloc) or is
\* about to initialise the entry and collect garbage, on behalf of store(),
\* holds the table lock exclusively, in both storage modes
C23_AllocUnderExclusive ==
    \A p \in Procs :
        pc[p] \in {"st_alloc", "st_enter", "st_init"} =>
            lock.excl = p /\ lock.shared = {}

\* entry_alloc, seen from the backend p that runs it for a key the table
\* holds: what one eviction pass, the hash_search(HASH_ENTER) and the
\* "if (!found)" block leave of the key's entry
SameEntry(e, f) ==
    /\ e.counters = f.counters
    /\ e.plan_offset = f.plan_offset
    /\ e.plan_len = f.plan_len

DeallocPass(p) ==
    /\ pc[p] = "st_alloc"
    /\ pc' = pc
    /\ hash_table' # hash_table
    /\ loc[p].key \in DOMAIN hash_table

EnterOfPresent(p) ==
    /\ pc[p] = "st_enter"
    /\ pc'[p] = "st_init"
    /\ loc[p].key \in DOMAIN hash_table

InitOfFound(p) ==
    /\ pc[p] = "st_init"
    /\ pc'[p] = "st_update"
    /\ loc[p].found

FoundIntact(p) ==
    /\ EnterOfPresent(p) => loc'[p].found /\ hash_table' = hash_table
    /\ InitOfFound(p) =>
          /\ DOMAIN hash_table' = DOMAIN hash_table
          /\ \A k \in DOMAIN hash_table :
                /\ hash_table'[k].counters = hash_table[k].counters
                /\ ~loc[p].do_gc => SameEntry(hash_table'[k], hash_table[k])

TextsOfKey(k) == {pl.text : pl \in {x \in Plans : x.planid = k.planid}}
Texted(tab) == {k \in DOMAIN tab : tab[k].plan_len >= 0}
Disjoint(e, f) ==
    \/ e.plan_offset + e.plan_len < f.plan_offset
    \/ f.plan_offset + f.plan_len < e.plan_offset

\* C24: in file mode, whenever no backend holds the table lock exclusively,
\* every entry with plan_len >= 0 lies below extent, the bytes it addresses
\* are a text appended for its key followed by NUL, and the ranges of two
\* entries do not overlap
C24_TextsAddressed ==
    (plan_storage = "file" /\ lock.excl = 0) =>
        /\ \A k \in Texted(hash_table) :
              /\ hash_table[k].plan_offset + hash_table[k].plan_len
                     < shared_state.extent
              /\ EntryText(k).ok
              /\ EntryText(k).str \in TextsOfKey(k)
        /\ \A k1, k2 \in Texted(hash_table) :
              k1 # k2 => Disjoint(hash_table[k1], hash_table[k2])

\* the counters a sequence of executions leaves in a fresh entry, without
\* the timestamps and the usage
Statistics(c) ==
    <<c.calls, c.total_time, c.min_time, c.max_time, c.mean_time,
      c.sum_var_time, c.rows, c.shared_blks_hit>>

RECURSIVE AfterUpdates(_, _)
AfterUpdates(c, n) ==
    IF n = 0 THEN {c}
    ELSE UNION {AfterUpdates(UpdateCounters(c, e, 1), n - 1) : e \in Execs}

\* C26: the counters of every row a snapshot returns are those of the row's
\* entry after some whole number, at least 1 and at most the number
\* completed so far, of store() updates since the entry was created
C26_AtomicCounters ==
    [][\A p \in Procs :
          (pc[p] = "sn_scan" /\ pc'[p] = "sn_done" /\ ~loc'[p].failed) =>
              \A i \in 1..Len(loc'[p].rows) :
                  LET row == loc'[p].rows[i]
                  IN  /\ row.counters.calls \in 1..acct[row.of].calls
                      /\ Statistics(row.counters)
                           \in {Statistics(c) :
                                  c \in AfterUpdates(ZeroCounters,
                                                     row.counters.calls)}]_vars

Holds(p) ==
    {lk \in {"mutex", "entry"} : HolderOf(lk) = p}

\* C27: a backend that is about to perform a file operation, or is about to
\* acquire (and may be waiting for) the table lock, holds neither an entry's
\* mutex nor shared_state->mutex; while it holds one of them it only reads
\* and writes memory
C27_NoSpinlockAcrossIO ==
    \A p \in Procs :
        /\ (Doing(p, "io") \/ Doing(p, "lw_shared") \/ Doing(p, "lw_excl"))
              => Holds(p) = {}
        /\ Holds(p) # {} => Doing(p, "mem") \/ Doing(p, "spin_release")

\* one backend is inside the counter update of pgsp_store with the entry's
\* mutex, the other waits for the exclusive table lock after its append
C27_Witness ==
    \E p, q \in Procs :
        /\ Inside(p) /\ At(p) = 1248 /\ sync.entry_mutex = p
        /\ Inside(q) /\ At(q) = 1204 /\ ~CanExcl

HoldsNothing(p) ==
    /\ lock.excl # p
    /\ p \notin lock.shared
    /\ Holds(p) = {}

\* C28: with every running backend scheduled again and again and file
\* operations that complete, every call of store(), the snapshot, the info
\* function and reset() returns, and a backend that is outside these calls
\* holds neither the table lock, nor an entry's mutex, nor
\* shared_state->mutex
C28_EveryCallReturns ==
    /\ \A p \in Procs : Inside(p) ~> ~Inside(p)
    /\ [](\A p \in Procs : ~Inside(p) => HoldsNothing(p))

\* every call the backends were to make has returned
C28_Witness ==
    /\ ops = MaxOps
    /\ \A p \in Procs : ~Inside(p) /\ HoldsNothing(p)

(* -------------------- reservations of ptext_store ---------------------- *)
\* a backend between the two mutex sections of ptext_store: its range is
\* reserved, its write is not yet marked complete
Reserved(p) == pc[p] = "st_write"
ReservedEnd(p) == loc[p].plan_offset + loc[p].plan_len + 1

\* p's step is the mutex section at the head of ptext_store
ReserveStep(p) == pc[p] = "st_reserve" /\ pc'[p] = "st_write"

\* C29: the ranges [offset, offset + len + 1) that backends have reserved
\* and not yet finished writing are pairwise disjoint and lie below extent;
\* every reservation starts at the extent it found, which is at or above
\* the end of every reservation still being written, and moves extent to
\* its own end; and extent moves in no other way than by a reservation, a
\* garbage collection or a reset.
C29_DisjointReservations ==
    /\ [](\A p \in Procs : Reserved(p) =>
            /\ ReservedEnd(p) <= shared_state.extent
            /\ \A q \in Procs \ {p} : Reserved(q) =>
                 \/ ReservedEnd(p) <= loc[q].plan_offset
                 \/ ReservedEnd(q) <= loc[p].plan_offset)
    /\ [][/\ \A p \in Procs : ReserveStep(p) =>
               /\ loc'[p].plan_offset = shared_state.extent
               /\ shared_state'.extent = ReservedEnd(p)'
               /\ \A q \in Procs \ {p} : Reserved(q) =>
                    ReservedEnd(q) <= loc'[p].plan_offset
          /\ shared_state'.extent # shared_state.extent =>
               \/ \E p \in Procs : ReserveStep(p)
               \/ gc_runs' # gc_runs
               \/ \E p \in Procs : pc[p] = "rs_body"]_vars

\* two backends hold reservations at once, one right behind the other
C29_Witness ==
    /\ \A p \in Procs : Reserved(p)
    /\ \E p, q \in Procs : /\ ReservedEnd(p) = loc[q].plan_offset
                           /\ ReservedEnd(q) = shared_state.extent

(* ---------------------- snapshot against writers ----------------------- *)
\* One statement has been stored (its first pgsp_store garbage-collected
\* a file of one text, as need_gc_ptexts told it to) and backend 1 is inside
\* pg_store_plans(): it has looked at extent, n_writers and gc_count, has
\* made its speculative load and is about to take the lock.
SnapKey == [planid |-> 11, userid |-> "u1", dbid |-> "db", queryid |-> 7]
SnapExec == CHOOSE e \in Execs : TRUE
SnapEntry ==
    [InitEntry([counters |-> ZeroCounters, plan_offset |-> 0, plan_len |-> 0,
                text |-> ""], 0, ClipLen(PlanLen))
       EXCEPT !.counters = UpdateCounters(@, SnapExec, 1)]

MidSnapshot ==
    /\ plan_storage = "file"
    /\ lock = [excl |-> 0, shared |-> {}]
    /\ hash_table = (SnapKey :> SnapEntry)
    /\ shared_state = [cur_median_usage |-> ASSUMED_MEDIAN_INIT,
                       mean_plan_len |-> RecLen,
                       extent |-> RecLen, n_writers |-> 0, gc_count |-> 0,
                       dealloc |-> 0, stats_reset |-> 0]
    /\ text_file = <<"A1">>
    /\ now = 2
    /\ pc = [p \in Procs |-> IF p = 1 THEN "sn_lock" ELSE "idle"]
    /\ \E userid \in Users, allowed \in BOOLEAN, fmt \in PlanFormats :
         loc = [p \in Procs |->
                  IF p = 1
                  THEN [NoLoc EXCEPT
                          !.userid = userid,
                          !.is_allowed_role = allowed,
                          !.plan_format = fmt,
                          !.extent = RecLen,
                          !.n_writers = 0,
                          !.gc_count = 0,
                          !.pbuffer = ptext_load_file(<<"A1">>, TRUE)]
                  ELSE NoLoc]
    /\ acct = [k \in Keys |->
                 IF k = SnapKey
                 THEN [calls |-> 1, total_time |-> SnapExec.total_time,
                       rows |-> SnapExec.rows]
                 ELSE ZeroAcct]
    /\ gc_runs = 1
    /\ postmaster = Running
    /\ dump_file = NoFile
    /\ session = NoSession
    /\ pgsp_max = store_size
    /\ executor = NoExecutor
    /\ sync = NoSync
    /\ stats = NoStats

SnapInit == MidSnapshot /\ ops = 0

SpecSnap == SnapInit /\ [][Next]_vars

\* C30: when a snapshot goes on from taking the shared lock to reading the
\* entries, the file image it holds, if it holds one, is the file as it is
\* then: whatever an append, a garbage collection or a reset changed in the
\* file since the speculative load has been picked up by the reload.
C30_ImageIsCurrent ==
    [][\A p \in Procs :
         (/\ pc[p] = "sn_lock"
          /\ pc'[p] = "sn_scan"
          /\ plan_storage = "file"
          /\ loc'[p].pbuffer.ok) => loc'[p].pbuffer.data = text_file']_vars

(* ------------------------ double arithmetic ---------------------------- *)
\* The time statistics are C doubles.  A double is modelled by its exact
\* value (-1)^neg * m * 2^e; every operation computes the exact result and
\* rounds it to a significand of DBL_MANT_DIG bits, ties to even, as IEEE
\* 754 arithmetic does.  The values that occur are far from the overflow
\* and underflow thresholds, which are left out.
MaxSamples == 4
DBL_MANT_DIG == 53
LimbBits == 13
LimbBase == 2 ^ LimbBits

RECURSIVE Trim(_)
Trim(a) ==
    IF a = <<>> THEN a
    ELSE IF a[Len(a)] = 0 THEN Trim(SubSeq(a, 1, Len(a) - 1))
    ELSE a

RECURSIVE BigOf(_)
BigOf(n) ==
    IF n = 0 THEN <<>> ELSE <<n % LimbBase>> \o BigOf(n \div LimbBase)

LimbAt(a, i) == IF i <= Len(a) THEN a[i] ELSE 0

RECURSIVE AddFrom(_, _, _, _)
AddFrom(a, b, i, carry) ==
    IF i > Len(a) /\ i > Len(b)
    THEN IF carry = 0 THEN <<>> ELSE <<carry>>
    ELSE <<(LimbAt(a, i) + LimbAt(b, i) + carry) % LimbBase>>
         \o AddFrom(a, b, i + 1,
                    (LimbAt(a, i) + LimbAt(b, i) + carry) \div LimbBase)
BigAdd(a, b) == AddFrom(a, b, 1, 0)

\* a - b for a >= b
RECURSIVE SubFrom(_, _, _, _)
SubFrom(a, b, i, borrow) ==
    IF i > Len(a) THEN <<>>
    ELSE IF a[i] - LimbAt(b, i) - borrow < 0
    THEN <<a[i] - LimbAt(b, i) - borrow + LimbBase>>
         \o SubFrom(a, b, i + 1, 1)
    ELSE <<a[i] - LimbAt(b, i) - borrow>> \o SubFrom(a, b, i + 1, 0)
BigSub(a, b) == Trim(SubFrom(a, b, 1, 0))

\* -1, 0, 1 as a is below, equal to, above b
RECURSIVE CmpFrom(_, _, _)
CmpFrom(a, b, i) ==
    IF i = 0 THEN 0
    ELSE IF a[i] < b[i] THEN -1
    ELSE IF a[i] > b[i] THEN 1
    ELSE CmpFrom(a, b, i - 1)
BigCmp(a, b) ==
    IF Len(a) < Len(b) THEN -1
    ELSE IF Len(a) > Len(b) THEN 1
    ELSE CmpFrom(a, b, Len(a))

\* a * c for 0 <= c <= LimbBase
RECURSIVE MulSmallFrom(_, _, _, _)
MulSmallFrom(a, c, i, carry) ==
    IF i > Len(a) THEN BigOf(carry)
    ELSE <<(a[i] * c + carry) % LimbBase>>
         \o MulSmallFrom(a, c, i + 1, (a[i] * c + carry) \div LimbBase)
BigMulSmall(a, c) == Trim(MulSmallFrom(a, c, 1, 0))

\* quotient and remainder of a by c, 0 < c <= LimbBase
RECURSIVE DivSmallFrom(_, _, _, _)
DivSmallFrom(a, c, i, rem) ==
    IF i = 0 THEN [q |-> <<>>, r |-> rem]
    ELSE LET rest == DivSmallFrom(a, c, i - 1, (rem * LimbBase + a[i]) % c)
         IN  [q |-> rest.q \o <<(rem * LimbBase + a[i]) \div c>>,
              r |-> rest.r]
BigDivSmall(a, c) ==
    LET d == DivSmallFrom(a, c, Len(a), 0)
    IN  [q |-> Trim(d.q), r |-> d.r]

RECURSIVE Zeros(_)
Zeros(n) == IF n <= 0 THEN <<>> ELSE <<0>> \o Zeros(n - 1)
ShiftLimbs(a, k) == IF a = <<>> THEN a ELSE Zeros(k) \o a

RECURSIVE MulFrom(_, _, _)
MulFrom(a, b, j) ==
    IF j > Len(b) THEN <<>>
    ELSE BigAdd(ShiftLimbs(BigMulSmall(a, b[j]), j - 1),
                MulFrom(a, b, j + 1))
BigMul(a, b) == MulFrom(a, b, 1)

\* a * 2^s
Shl(a, s) ==
    ShiftLimbs(BigMulSmall(a, 2 ^ (s % LimbBits)), s \div LimbBits)

\* a \div 2^s, and whether a one was shifted out
Shr(a, s) ==
    LET k == Min(s \div LimbBits, Len(a))
        d == BigDivSmall(SubSeq(a, k + 1, Len(a)), 2 ^ (s % LimbBits))
    IN  [q |-> d.q,
         sticky |-> d.r # 0 \/ \E i \in 1..k : a[i] # 0]

BitLen(a) ==
    IF a = <<>> THEN 0
    ELSE LimbBits * (Len(a) - 1)
         + (CHOOSE k \in 1..LimbBits :
                2 ^ (k - 1) <= a[Len(a)] /\ a[Len(a)] < 2 ^ k)

IsOdd(a) == a # <<>> /\ a[1] % 2 = 1

\* the double nearest to (-1)^neg * (m + f) * 2^e, where 0 <= f < 1 and
\* sticky tells whether f > 0 (then m has more than DBL_MANT_DIG + 1 bits)
RoundHalfEven(h, sticky) ==
    LET t == Shr(h, 1).q
    IN  IF IsOdd(h) /\ (sticky \/ IsOdd(t)) THEN BigAdd(t, <<1>>) ELSE t

Rounded(neg, m, e, sticky) ==
    IF m = <<>> THEN DZero
    ELSE IF BitLen(m) <= DBL_MANT_DIG THEN [neg |-> neg, m |-> m, e |-> e]
    ELSE LET s == BitLen(m) - DBL_MANT_DIG
             h == Shr(m, s - 1)
         IN  [neg |-> neg,
              m |-> RoundHalfEven(h.q, sticky \/ h.sticky),
              e |-> e + s]

\* the significands of x and y over their common exponent
Aligned(x, y) ==
    [e |-> Min(x.e, y.e),
     mx |-> Shl(x.m, x.e - Min(x.e, y.e)),
     my |-> Shl(y.m, y.e - Min(x.e, y.e))]

\* x + y and x - y in exact arithmetic
ExactSum(x, y) ==
    LET a == Aligned(x, y)
        c == BigCmp(a.mx, a.my)
    IN  IF x.neg = y.neg
        THEN [neg |-> x.neg, m |-> BigAdd(a.mx, a.my), e |-> a.e]
        ELSE IF c = 0 THEN DZero
        ELSE IF c > 0
        THEN [neg |-> x.neg, m |-> BigSub(a.mx, a.my), e |-> a.e]
        ELSE [neg |-> y.neg, m |-> BigSub(a.my, a.mx), e |-> a.e]
Negated(x) == IF x.m = <<>> THEN x ELSE [x EXCEPT !.neg = ~@]
ExactDifference(x, y) == ExactSum(x, Negated(y))

\* -1, 0, 1 as |x| is below, equal to, above |y|
CmpAbs(x, y) == LET a == Aligned(x, y) IN BigCmp(Trim(a.mx), Trim(a.my))
Less(x, y) == LET d == ExactDifference(x, y) IN d.neg /\ d.m # <<>>

\* the C operators +, -, * on doubles, and / by an integer count
DAdd(x, y) == LET s == ExactSum(x, y) IN Rounded(s.neg, s.m, s.e, FALSE)
DSub(x, y) == DAdd(x, Negated(y))
DMul(x, y) ==
    Rounded(x.neg # y.neg, BigMul(x.m, y.m), x.e + y.e, FALSE)
\* the dividend is extended by two significands' worth of bits, so that the
\* quotient keeps more than DBL_MANT_DIG + 1 of them
DDivInt(x, n) ==
    LET s == 2 * DBL_MANT_DIG
        d == BigDivSmall(Shl(x.m, s), n)
    IN  Rounded(x.neg, d.q, x.e - s, d.r # 0)

(* ---------------------- the time statistics ---------------------------- *)
\* execution times as pgsp_store receives them, in units of 2^-20 ms (about
\* a nanosecond): 100 ms, two times within 3 ns of it, and 150 ms
TimeUnit == 20
Times == {100 * 2 ^ TimeUnit, 100 * 2 ^ TimeUnit + 1,
          100 * 2 ^ TimeUnit + 3, 150 * 2 ^ TimeUnit}
Msec(t) == [neg |-> FALSE, m |-> BigOf(t), e |-> 0 - TimeUnit]

\* (variant: the second factor uses the old mean as well)
sum_var_term_old_mean(total_time, old_mean, mean_time) ==
    DMul(DSub(total_time, old_mean), DSub(total_time, old_mean))

\* (total_time - old_mean) * (total_time - e->counters.mean_time)
sum_var_term(total_time, old_mean, mean_time) ==
    DMul(DSub(total_time, old_mean), DSub(total_time, mean_time))

\* the time statistics part of the counter update
UpdateTimes(c, total_time) ==
    LET calls == c.calls + 1
        old_mean == c.mean_time
        mean == DAdd(old_mean, DDivInt(DSub(total_time, old_mean), calls))
    IN  IF calls = 1
        THEN [c EXCEPT !.calls = calls,
                       !.total_time = DAdd(@, total_time),
                       !.min_time = total_time,
                       !.max_time = total_time,
                       !.mean_time = total_time]
        ELSE [c EXCEPT !.calls = calls,
                       !.total_time = DAdd(@, total_time),
                       !.mean_time = mean,
                       !.sum_var_time =
                           DAdd(@, sum_var_term(total_time, old_mean, mean)),
                       !.min_time =
                           IF Less(total_time, @) THEN total_time ELSE @,
                       !.max_time =
                           IF Less(@, total_time) THEN total_time ELSE @]

TimesInit ==
    /\ plan_storage = "file"
    /\ AtBoot
    /\ executor = NoExecutor
    /\ sync = NoSync
    /\ stats = NoStats

\* one more execution of the entry's statement is stored
pgsp_store_times ==
    /\ stats.calls < MaxSamples
    /\ \E t \in Times :
         stats' = [UpdateTimes(stats, Msec(t)) EXCEPT
                     !.samples = Append(@, t)]
    /\ UNCHANGED <<plan_storage, lock, hash_table, shared_state, text_file,
                   now, ops, pc, loc, acct, gc_runs, pm_vars, session,
                   pgsp_max, executor, sync>>

SpecTimes == TimesInit /\ [][pgsp_store_times]_vars

\* the naive two-pass computation over the samples, in doubles
RECURSIVE SumOf(_, _)
SumOf(xs, i) == IF i = 0 THEN DZero ELSE DAdd(SumOf(xs, i - 1), Msec(xs[i]))
TwoPassMean(xs) == DDivInt(SumOf(xs, Len(xs)), Len(xs))
Squared(x) == DMul(x, x)
RECURSIVE SumSqDev(_, _, _)
SumSqDev(xs, mean, i) ==
    IF i = 0 THEN DZero
    ELSE DAdd(SumSqDev(xs, mean, i - 1), Squared(DSub(Msec(xs[i]), mean)))
TwoPassSumVar(xs) == SumSqDev(xs, TwoPassMean(xs), Len(xs))

\* |x - ref| <= 1e-9 * |ref|
Billion(x) ==
    [x EXCEPT !.m = BigMulSmall(BigMulSmall(BigMulSmall(@, 1000), 1000), 1000)]
Within1e9(x, ref) == CmpAbs(Billion(ExactDifference(x, ref)), ref) <= 0

\* the samples differ from their mean by at least 1e-5 of their size: the
\* sum of squared deviations is at least 1e-10 of the sum of squares
SumSq(xs) == SumSqDev(xs, DZero, Len(xs))
TenBillion(x) == [Billion(x) EXCEPT !.m = BigMulSmall(@, 10)]
Spread(xs) == CmpAbs(TenBillion(TwoPassSumVar(xs)), SumSq(xs)) >= 0

\* C22 as stated: after every sequence of samples, mean_time and
\* sum_var_time are within 1e-9 relative tolerance of the two-pass mean and
\* sum of squared deviations.
C22_WelfordTwoPass ==
    stats.calls > 0 =>
        /\ Within1e9(stats.mean_time, TwoPassMean(stats.samples))
        /\ Within1e9(stats.sum_var_time, TwoPassSumVar(stats.samples))

\* C22 amended: mean_time is within 1e-9 relative tolerance of the two-pass
\* mean after every sequence of samples; sum_var_time is within 1e-9
\* relative tolerance of the two-pass sum of squared deviations when that
\* sum is at least 1e-10 of the sum of the squared samples.
C22_WelfordTwoPassAmended ==
    stats.calls > 0 =>
        /\ Within1e9(stats.mean_time, TwoPassMean(stats.samples))
        /\ Spread(stats.samples) =>
             Within1e9(stats.sum_var_time, TwoPassSumVar(stats.samples))

\* three samples with spread whose mean is no double: both computations
\* round, and they end in different doubles
C22_Witness ==
    /\ stats.calls >= 3
    /\ Spread(stats.samples)
    /\ stats.sum_var_time # TwoPassSumVar(stats.samples)
    /\ Within1e9(stats.sum_var_time, TwoPassSumVar(stats.samples))

(* ------------------- garbage collection of the texts ------------------- *)
\* gc_ptexts on its own: backend 1 holds the exclusive lock and is about to
\* call gc_ptexts on a table of up to GcCapacity entries over a text file
\* of up to GcMaxRecords texts.  An entry addresses one of the texts, or a
\* place behind the end of the file (what a reset between a backend's
\* append and its entry_alloc leaves), or has lost its text in an earlier
\* gc_fail (plan_offset 0, plan_len -1).
GcCapacity == 2
GcMaxRecords == 3

GcFiles == UNION {[1..n -> {"A1", "B1"}] : n \in 0..GcMaxRecords}
GcPointers ==
    {[plan_offset |-> 0, plan_len |-> -1]}
    \cup [plan_offset : {i * RecLen : i \in 0..GcMaxRecords},
          plan_len : {ClipLen(PlanLen)}]
GcEntry(ptr) ==
    [text |-> "", plan_len |-> ptr.plan_len, plan_offset |-> ptr.plan_offset,
     counters |-> UpdateCounters(ZeroCounters, CHOOSE e \in Execs : TRUE, 1)]
GcTables ==
    UNION {[D -> {GcEntry(ptr) : ptr \in GcPointers}] :
             D \in {K \in SUBSET Keys : Cardinality(K) <= GcCapacity}}

GcInit ==
    /\ plan_storage = "file"
    /\ lock = [excl |-> 1, shared |-> {}]
    /\ hash_table \in GcTables
    /\ text_file \in GcFiles
    /\ shared_state = [cur_median_usage |-> ASSUMED_MEDIAN_INIT,
                       mean_plan_len |-> ASSUMED_LENGTH_INIT,
                       extent |-> Len(text_file) * RecLen,
                       n_writers |-> 0, gc_count |-> 0,
                       dealloc |-> 0, stats_reset |-> 0]
    /\ now = 2
    /\ ops = 0
    /\ pc = [p \in Procs |-> IF p = 1 THEN "gc" ELSE "idle"]
    /\ loc = [p \in Procs |-> NoLoc]
    /\ acct = [k \in Keys |-> ZeroAcct]
    /\ gc_runs = 0
    /\ postmaster = Running
    /\ dump_file = NoFile
    /\ session = NoSession
    /\ pgsp_max = GcCapacity
    /\ executor = NoExecutor
    /\ sync = NoSync
    /\ stats = NoStats

\* the call of gc_ptexts; do_gc notes whether it went past its
\* need_gc_ptexts test, failed whether it left by gc_fail
gc_ptexts_call ==
    /\ pc[1] = "gc"
    /\ \E order \in Perms(DOMAIN hash_table), io \in GcFates :
         LET r == gc_ptexts(hash_table, shared_state, text_file, order, io)
         IN  /\ hash_table' = r.tab
             /\ shared_state' = r.ss
             /\ text_file' = r.file
             /\ loc' = [loc EXCEPT
                          ![1].do_gc = need_gc_ptexts(shared_state),
                          ![1].failed =
                              need_gc_ptexts(shared_state) /\ io # "ok"]
    /\ gc_runs' = IF need_gc_ptexts(shared_state) THEN gc_runs + 1
                  ELSE gc_runs
    /\ pc' = [pc EXCEPT ![1] = "gc_done"]
    /\ UNCHANGED <<plan_storage, lock, now, ops, acct, pm_vars, session,
                   pgsp_max, executor, sync, stats>>

SpecGc == GcInit /\ [][gc_ptexts_call]_vars

GcStep == pc[1] = "gc" /\ pc'[1] = "gc_done"
GcSucceeded == loc[1].do_gc /\ ~loc[1].failed
GcFailed == loc[1].do_gc /\ loc[1].failed

\* the text an entry resolves to in a file
TextIn(entry, file) ==
    ptext_fetch(entry.plan_offset, entry.plan_len,
                ptext_load_file(file, TRUE))
Validated(tab, file) == {k \in DOMAIN tab : TextIn(tab[k], file).ok}
SameMembersAndCounters(t1, t2) ==
    /\ DOMAIN t1 = DOMAIN t2
    /\ \A k \in DOMAIN t1 : t1[k].counters = t2[k].counters
\* the ranges of the entries of S tile [0, extent)
BackToBack(tab, S, extent) ==
    /\ extent = SumTextLen(tab, S)
    /\ \A k \in S : tab[k].plan_offset + tab[k].plan_len + 1 <= extent
    /\ \A j, k \in S : j # k =>
         \/ tab[j].plan_offset + tab[j].plan_len + 1 <= tab[k].plan_offset
         \/ tab[k].plan_offset + tab[k].plan_len + 1 <= tab[j].plan_offset

\* C31: a garbage collection that succeeds leaves every entry whose offset
\* and length validated against the old file with the same length and the
\* same text, lays these entries' ranges out back to back from offset 0
\* with extent at their end, gives every other entry plan_len -1, and
\* keeps the table's members and their counters.
C31_GcCompacts ==
    [][(GcStep /\ GcSucceeded') =>
         LET valid == Validated(hash_table, text_file)
         IN  /\ SameMembersAndCounters(hash_table, hash_table')
             /\ \A k \in valid :
                  /\ hash_table'[k].plan_len = hash_table[k].plan_len
                  /\ TextIn(hash_table'[k], text_file')
                         = TextIn(hash_table[k], text_file)
             /\ BackToBack(hash_table', valid, shared_state'.extent)
             /\ \A k \in (DOMAIN hash_table) \ valid :
                  hash_table'[k].plan_len = -1]_vars

\* a successful collection has laid the two different texts of two entries
\* out one after the other
C31_Witness ==
    /\ pc[1] = "gc_done"
    /\ GcSucceeded
    /\ Len(text_file) = 2
    /\ \E j, k \in DOMAIN hash_table :
         /\ hash_table[j].plan_offset = 0
         /\ hash_table[k].plan_offset = RecLen
         /\ TextIn(hash_table[j], text_file).ok
         /\ TextIn(hash_table[k], text_file).ok
         /\ TextIn(hash_table[j], text_file) # TextIn(hash_table[k], text_file)

C33_NoGcRightAfterGc ==
    (pc[1] = "gc_done" /\ GcSucceeded /\ Count(hash_table) <= pgsp_max)
        => ~need_gc_ptexts(shared_state)

\* a successful collection that has kept two texts
C33_Witness ==
    /\ pc[1] = "gc_done"
    /\ GcSucceeded
    /\ Count(hash_table) = pgsp_max
    /\ shared_state.extent = 2 * RecLen
    /\ shared_state.mean_plan_len = RecLen

(* ------------------------- entry_dealloc, again ------------------------ *)

\* C34: every entry that a call of entry_dealloc removes has, after the
\* decay, a usage less than or equal to the usage of every entry the call
\* leaves in the table.
C34_EvictsLowestUsage ==
    [][DeallocStep =>
         \A r \in Evicted, w \in DOMAIN hash_table' :
             DecayedTable(hash_table)[r].counters.usage
                 <= hash_table'[w].counters.usage]_vars

\* a pass has removed entries and left others, among them entries of
\* different usage
C34_Witness ==
    /\ shared_state.dealloc = 1
    /\ Count(hash_table) < pgsp_max
    /\ \E j, k \in DOMAIN hash_table :
         hash_table[j].counters.usage < hash_table[k].counters.usage

\* C39: after a call of entry_dealloc the shared mean_plan_len is the
\* integer mean of plan_len + 1 over the swept entries whose plan_len >= 0,
\* or ASSUMED_LENGTH_INIT when no swept entry has one.
C39_MeanOfSweptTexts ==
    [][DeallocStep =>
         shared_state'.mean_plan_len =
             IF ValidTexts(hash_table) = {} THEN ASSUMED_LENGTH_INIT
             ELSE SumTextLen(hash_table, ValidTexts(hash_table))
                      \div Cardinality(ValidTexts(hash_table))]_vars

TableFull == Count(hash_table) >= pgsp_max
NewestKey == DeallocKey(pgsp_max + ops)
InsertStep == ops' = ops + 1

\* C35: a full table is not an error.  A pass of entry_dealloc made by
\* entry_alloc under the exclusive lock, the capacity being at least 100,
\* leaves fewer entries than the capacity, so the loop's test fails the
\* next time and the loop ends; the insert it made room for then puts the
\* new entry into the table, which stays within the capacity.
C35_EvictionMakesRoom ==
    [][/\ DeallocStep => TableFull /\ ~TableFull'
       /\ InsertStep => /\ ~TableFull
                        /\ NewestKey' \in DOMAIN hash_table'
                        /\ Count(hash_table') <= pgsp_max]_vars

\* a table that was full has been through one pass and has taken the new
\* entry
C35_Witness ==
    /\ shared_state.dealloc = 1
    /\ ops = 1
    /\ NewestKey \in DOMAIN hash_table
    /\ Count(hash_table) < pgsp_max

(* ------------------------ the bytes of the texts ----------------------- *)
\* The texts byte by byte.  A shortened plan is a C string: its bytes and
\* the terminating NUL.  "a" is an ASCII byte, "L" and "T" are the lead and
\* the trail byte of a two-byte UTF8 character; in a single-byte encoding
\* each of them is a character.  plan_size is scaled down to TextArea
\* bytes.  acct[k] keeps the shortened plan the entry of key k was made for.
TextArea == 4
MaxTextChars == 3
NUL == "NUL"
Encodings == {"LATIN1", "UTF8"}
TextChars == {<<"a">>, <<"L", "T">>}

RECURSIVE Flatten(_)
Flatten(s) == IF s = <<>> THEN <<>> ELSE Head(s) \o Flatten(Tail(s))

ShortenedPlans ==
    UNION {{Flatten(cs) : cs \in [1..n -> TextChars]} : n \in 1..MaxTextChars}

TextKey(q) == DeallocKey(q)
TextKeys == {TextKey(q) : q \in 0..MaxOps}

pg_encoding_max_length(enc) == IF enc = "UTF8" THEN 4 ELSE 1
pg_utf_mblen(byte) == IF byte = "L" THEN 2 ELSE 1

\* cliplen of mbutils.c: min(len, limit), or the place of the first NUL
RECURSIVE cliplen(_, _, _)
cliplen(str, l, len) ==
    IF l < len /\ str[l + 1] # NUL THEN cliplen(str, l + 1, len) ELSE l

\* the loop of pg_encoding_mbcliplen over whole characters; str is what is
\* left of the string, clen the bytes accepted so far
RECURSIVE mbcliploop(_, _, _, _)
mbcliploop(str, len, clen, limit) ==
    IF len <= 0 \/ Head(str) = NUL THEN clen
    ELSE LET l == pg_utf_mblen(Head(str))
         IN  IF clen + l > limit THEN clen
             ELSE IF clen + l = limit THEN clen + l
             ELSE mbcliploop(SubSeq(str, l + 1, Len(str)), len - l,
                             clen + l, limit)

pg_encoding_mbcliplen(enc, mbstr, len, limit) ==
    IF pg_encoding_max_length(enc) = 1 THEN cliplen(mbstr, 0, Min(len, limit))
    ELSE mbcliploop(mbstr, len, 0, limit)

\* plan_len as pgsp_store and the loader compute it from a C string
ClippedLen(enc, cstr) ==
    LET len == Len(cstr) - 1
    IN  IF len >= TextArea
        THEN pg_encoding_mbcliplen(enc, cstr, len, TextArea - 1)
        ELSE len

\* pg_pwrite / fwrite of bytes at offset off of a file; a gap reads as NULs
WriteAt(file, off, bytes) ==
    LET n == Max(Len(file), off + Len(bytes))
    IN  [i \in 1..n |->
            IF i > off /\ i <= off + Len(bytes) THEN bytes[i - off]
            ELSE IF i <= Len(file) THEN file[i]
            ELSE NUL]

\* the outcomes of ptext_store's writes: both done, the file not opened or
\* the text not written, the text written and the NUL not
WriteFates == {"ok", "no_text", "no_nul"}

TextEntry(plan_offset, plan_len, text) ==
    [InitEntry([counters |-> ZeroCounters, plan_offset |-> 0, plan_len |-> 0,
                text |-> text], plan_offset, plan_len)
        EXCEPT !.counters = UpdateCounters(@, CHOOSE e \in Execs : TRUE, now)]

TextInit ==
    /\ plan_storage \in StorageModes
    /\ lock = [excl |-> 0, shared |-> {}]
    /\ hash_table = EmptyTable
    /\ shared_state = FreshState(0)
    /\ text_file = <<>>
    /\ now = 1
    /\ ops = 0
    /\ pc = [p \in Procs |-> IF p = 1 THEN "boot" ELSE "idle"]
    /\ loc = [p \in Procs |-> NoLoc]
    /\ acct = [k \in TextKeys |-> <<>>]
    /\ gc_runs = 0
    /\ postmaster = Running
    /\ dump_file = NoFile
    /\ session = NoSession
    /\ pgsp_max = 100
    /\ executor = NoExecutor
    /\ sync = NoSync
    /\ stats = NoStats

\* pgsp_shmem_startup without a dump file, or with one that holds one
\* entry, written by an incarnation whose plan_size may have been larger:
\* the text is clipped, terminated in the buffer and stored
pgsp_shmem_startup_text ==
    /\ pc[1] = "boot"
    /\ pc' = [pc EXCEPT ![1] = "idle"]
    /\ \/ UNCHANGED <<hash_table, shared_state, text_file, acct>>
       \/ \E plan \in ShortenedPlans, enc \in Encodings :
            LET plan_len == ClippedLen(enc, plan \o <<NUL>>)
                buffer == SubSeq(plan, 1, plan_len) \o <<NUL>>
                off == shared_state.extent
            IN  /\ acct' = [acct EXCEPT ![TextKey(0)] = plan]
                /\ IF plan_storage = "file"
                   THEN /\ text_file' = WriteAt(text_file, off, buffer)
                        /\ shared_state' =
                               [shared_state EXCEPT
                                    !.extent = @ + plan_len + 1]
                        /\ hash_table' =
                               With(hash_table, TextKey(0),
                                    TextEntry(off, plan_len, <<>>))
                   ELSE /\ hash_table' =
                               With(hash_table, TextKey(0),
                                    TextEntry(0, plan_len, buffer))
                        /\ UNCHANGED <<shared_state, text_file>>
    /\ UNCHANGED <<plan_storage, lock, now, ops, loc, gc_runs, pm_vars,
                   session, pgsp_max, executor, sync, stats>>

\* pgsp_store of a plan that has no entry yet, by one backend: plan_len,
\* ptext_store in file mode, entry_alloc, the memcpy of plan_len + 1 bytes
\* of shorten_plan in shmem mode, the counters
pgsp_store_text ==
    /\ pc[1] = "idle"
    /\ ops < MaxOps
    /\ ops' = ops + 1
    /\ \E plan \in ShortenedPlans, enc \in Encodings, io \in WriteFates :
         LET shorten_plan == plan \o <<NUL>>
             plan_len == ClippedLen(enc, shorten_plan)
             off == shared_state.extent
             key == TextKey(ops')
         IN  IF plan_storage = "file"
             THEN /\ shared_state' =
                         [shared_state EXCEPT !.extent = @ + plan_len + 1]
                  /\ text_file' =
                         IF io = "no_text" THEN text_file
                         ELSE IF io = "no_nul"
                         THEN WriteAt(text_file, off,
                                      SubSeq(shorten_plan, 1, plan_len))
                         ELSE WriteAt(text_file, off,
                                      SubSeq(shorten_plan, 1, plan_len)
                                          \o <<NUL>>)
                  /\ IF io = "ok"
                     THEN /\ hash_table' =
                                 With(hash_table, key,
                                      TextEntry(off, plan_len, <<>>))
                          /\ acct' = [acct EXCEPT ![key] = plan]
                     ELSE UNCHANGED <<hash_table, acct>>
             ELSE /\ hash_table' =
                         With(hash_table, key,
                              TextEntry(0, plan_len,
                                        SubSeq(shorten_plan, 1,
                                               plan_len + 1)))
                  /\ acct' = [acct EXCEPT ![key] = plan]
                  /\ UNCHANGED <<shared_state, text_file>>
    /\ UNCHANGED <<plan_storage, lock, now, pc, loc, gc_runs, pm_vars,
                   session, pgsp_max, executor, sync, stats>>

TextNext ==
    \/ pgsp_shmem_startup_text
    \/ pgsp_store_text

SpecText == TextInit /\ [][TextNext]_vars

\* the plan_len + 1 bytes an entry's text occupies
StoredText(e) ==
    IF plan_storage = "file"
    THEN SubSeq(text_file, e.plan_offset + 1, e.plan_offset + e.plan_len + 1)
    ELSE e.text

\* C36: the stored text of every entry with a text is the first plan_len
\* bytes of the shortened plan followed by one NUL, and 0 <= plan_len <
\* plan_size, in both storage modes, clipped or not.
C36_StoredTextTerminated ==
    \A k \in DOMAIN hash_table :
        LET e == hash_table[k]
        IN  e.plan_len >= 0 =>
               /\ e.plan_len < TextArea
               /\ StoredText(e) = SubSeq(acct[k], 1, e.plan_len) \o <<NUL>>

(* ------------------------- the count of writers ------------------------ *)
\* the backends inside ptext_store between the reservation and the end of
\* the write
Writers == {p \in Procs : pc[p] = "st_write"}

\* C40: n_writers is the number of ptext_store calls that have reserved
\* their range and not finished writing: never negative, and 0 again once
\* every append has finished, successfully or not.
C40_WritersCounted == shared_state.n_writers = Cardinality(Writers)

\* two appends have been in flight at once and both have finished, one of
\* them with an error
C40_Witness ==
    /\ Writers = {}
    /\ \A p \in Procs : loc[p].n_writers0 + 1 = p
    /\ \E p, q \in Procs : loc[p].stored /\ ~loc[q].stored /\ loc[q].failed

(* ----------------------- fields left out by Normalize ------------------ *)
\* the last lexeme of the value that starts at position i of a document:
\* the bracket that closes it, or the scalar itself
RECURSIVE ValueEnd(_, _, _)
ValueEnd(doc, i, depth) ==
    LET d == IF doc[i].k \in {"{", "["} THEN depth + 1
             ELSE IF doc[i].k \in {"}", "]"} THEN depth - 1
             ELSE depth
    IN  IF d = 0 \/ i = Len(doc) THEN i ELSE ValueEnd(doc, i + 1, d)

IsFieldName(doc, i) ==
    i < Len(doc) /\ doc[i].k = "str" /\ doc[i + 1].k = ":"

\* the lexemes of the fields flagged normalize_use = false: name, colon and
\* every lexeme of the value
FlaggedLexemes(doc) ==
    {j \in 1..Len(doc) :
        \E i \in 1..j :
            /\ IsFieldName(doc, i) /\ Volatile(doc[i].v)
            /\ j <= ValueEnd(doc, i + 2, 0)}

\* a comma that separates nothing any more
RECURSIVE DropCommas(_)
DropCommas(doc) ==
    LET bad == {i \in 1..Len(doc) :
                   /\ doc[i].k = ","
                   /\ \/ i = Len(doc)
                      \/ doc[i + 1].k \in {"}", "]", ","}
                      \/ i = 1
                      \/ doc[i - 1].k \in {"{", "["}}
    IN  IF bad = {} THEN doc
        ELSE LET b == CHOOSE i \in bad : \A j \in bad : i <= j
             IN  DropCommas(SubSeq(doc, 1, b - 1)
                                \o SubSeq(doc, b + 1, Len(doc)))

RECURSIVE Select(_, _, _, _)
Select(doc, lo, hi, keep) ==
    IF lo > hi THEN <<>>
    ELSE IF lo = hi THEN IF lo \in keep THEN <<doc[lo]>> ELSE <<>>
    ELSE LET h == (lo + hi) \div 2
         IN  Select(doc, lo, h, keep) \o Select(doc, h + 1, hi, keep)

\* the document without its flagged fields
WithoutFlagged(doc) ==
    DropCommas(Select(doc, 1, Len(doc),
                      (1..Len(doc)) \ FlaggedLexemes(doc)))

\* C37: in Normalize mode a field flagged normalize_use = false leaves
\* nothing in the output, neither its name nor its scalar value nor a
\* bracket, brace or separator of an array or object it holds: the output
\* is that of the document without these fields.
C37_FlaggedFieldsLeaveNothing ==
    NormalizedPlan =>
        Render(session.out[1])
            = Render(pgsp_json_normalize(WithoutFlagged(session.src)).text)

(* ------------------------- words not in the tables --------------------- *)
LookupModes ==
    [shorten |-> PGSP_JSON_SHORTEN, normalize |-> PGSP_JSON_NORMALIZE,
     jsonplan |-> PGSP_JSON_INFLATE, yamlplan |-> PGSP_JSON_YAMLIZE,
     xmlplan |-> PGSP_JSON_XMLIZE]

\* the last call was one of the five functions that look words up, applied
\* to a plan document or to the shortened form of one
LookupCall ==
    /\ session.src \in PlanDocs
    /\ session.status = "ok"
    /\ \/ Len(session.calls) = 1
       \/ Len(session.calls) = 2 /\ session.calls[1] = "shorten"
    /\ LastCall \in DOMAIN LookupModes

\* the fields of a document whose name search_word_table does not find
UnknownNames(doc, mode) ==
    {i \in 1..Len(doc) :
        /\ IsFieldName(doc, i)
        /\ search_word_table(propfields, doc[i].v, mode) = 0}

\* the fields whose value goes through a word table that does not hold it
UnknownValues(doc, mode) ==
    {i \in 1..Len(doc) :
        /\ IsFieldName(doc, i)
        /\ LET p == search_word_table(propfields, doc[i].v, mode)
           IN  /\ p # 0
               /\ propfields[p].converter \in CoreConverters
               /\ mode = PGSP_JSON_NORMALIZE => propfields[p].normalize_use
               /\ IsScalar(doc[i + 2])
               /\ search_word_table(ConverterTable(propfields[p].converter),
                                    doc[i + 2].v, mode) = 0}

\* a field name and a scalar as the mode's output format writes them
NameOut(mode, name) ==
    IF mode = PGSP_JSON_YAMLIZE THEN Txt(name)
    ELSE IF mode = PGSP_JSON_XMLIZE
    THEN Txt(escape_xml(hyphenate_words(name)))
    ELSE Str(name)
ValueOut(mode, tok) ==
    IF mode = PGSP_JSON_XMLIZE THEN xml_value(tok.v, tok.k) ELSE tok.v

\* the output holds field i of doc under its own name, with its own value
\* if that is a scalar
NamePassed(out, mode, doc, i) ==
    \E j \in 1..Len(out) :
        /\ out[j] = NameOut(mode, doc[i].v)
        /\ IsScalar(doc[i + 2]) =>
              /\ j + 2 <= Len(out)
              /\ out[j + 2].v = ValueOut(mode, doc[i + 2])

\* the output holds the value of field i of doc as it is, as the value of
\* some field
ValuePassed(out, mode, doc, i) ==
    \E j \in 3..Len(out) :
        /\ out[j].v = ValueOut(mode, doc[i + 2])
        /\ out[j - 1].k \in {":", "txt"}

\* the fields whose name Normalize does not find, each with the scalar it
\* holds
UnknownLexemes(doc) ==
    {j \in 1..Len(doc) :
        \E i \in UnknownNames(doc, PGSP_JSON_NORMALIZE) :
            IsScalar(doc[i + 2]) /\ j \in i..(i + 2)}

WithoutUnknown(doc) ==
    DropCommas(Select(doc, 1, Len(doc),
                      (1..Len(doc)) \ UnknownLexemes(doc)))

\* C38 as stated: a field name or a field value that is not in the word
\* table is passed through unchanged and the parse continues, in Shorten,
\* Normalize, Inflate, Yamlize and Xmlize
C38_UnknownWordsPassThrough ==
    LookupCall =>
        LET mode == LookupModes[LastCall]
            doc == Tokens(LastIn)
            out == Tokens(LastOut)
        IN  /\ session.ok[Len(session.ok)]
            /\ \A i \in UnknownNames(doc, mode) :
                   NamePassed(out, mode, doc, i)
            /\ \A i \in UnknownValues(doc, mode) :
                   ValuePassed(out, mode, doc, i)

\* C38 amended: an unknown field value is passed through unchanged in all
\* five modes and an unknown field name in Shorten, Inflate, Yamlize and
\* Xmlize; Normalize leaves an unknown field out, as it does a field flagged
\* normalize_use = false; the parse continues in every case
C38_UnknownWordsAmended ==
    LookupCall =>
        LET mode == LookupModes[LastCall]
            doc == Tokens(LastIn)
            out == Tokens(LastOut)
        IN  /\ session.ok[Len(session.ok)]
            /\ \A i \in UnknownValues(doc, mode) :
                   ValuePassed(out, mode, doc, i)
            /\ IF mode = PGSP_JSON_NORMALIZE
               THEN Render(LastOut)
                        = Render(pgsp_json_normalize(WithoutUnknown(doc)).text)
               ELSE \A i \in UnknownNames(doc, mode) :
                        NamePassed(out, mode, doc, i)

\* a document with a field name and a field value that are in no table
\* has been normalized, or shortened and then turned into XML
C38_Witness ==
    /\ LookupCall
    /\ LastCall \in {"normalize", "xmlplan"}
    /\ LastCall = "xmlplan" => Len(session.calls) = 2
    /\ LET mode == LookupModes[LastCall]
       IN  \/ \E i \in UnknownNames(Tokens(LastIn), mode) :
                 IsScalar(Tokens(LastIn)[i + 2])
           \/ UnknownValues(Tokens(LastIn), mode) # {}

====
